---- MODULE Spec2Model ----
(***************************************************************************)
(* Model of the LightPool Python SDK core: the identifier packer           *)
(* (client.py), the parameter and event codecs (bincode.py), the typed     *)
(* records (types.py) and the transaction builder (transaction.py).        *)
(*                                                                         *)
(* Representation of Python values                                         *)
(*   int    an unbounded natural number is a little-endian sequence of     *)
(*          16-bit limbs without leading zero limbs (0 is <<>>); this      *)
(*          keeps 64-bit values exact.  A negative int is a sequence       *)
(*          whose last limb is negative.                                   *)
(*   bytes  a sequence of 0..255                                           *)
(*   str    a sequence of Unicode code points                              *)
(*   None, enum members and objects are records tagged by the field t.     *)
(***************************************************************************)
EXTENDS Integers, Sequences, FiniteSets, TLC

VARIABLES
    call,       \* the pending call of a pure function: its name and arguments
    ret,        \* what the call returned or raised; [t |-> "pending"] before
    builder,    \* the fields of the TransactionBuilder
    heap,       \* the items of each Python list, by reference
    returned,   \* the transaction that build or build_and_sign returned last
    added,      \* the actions passed to add_action, in call order
    outcome     \* the last call on the builder or the client, and its result

vars == <<call, ret, builder, heap, returned, added, outcome>>

(***************************************************************************)
(* Python int arithmetic on limb sequences                                 *)
(***************************************************************************)
LimbBase == 256 * 256

RECURSIVE Norm(_)
\* drop leading (most significant) zero limbs
Norm(x) ==
    IF x = <<>> THEN <<>>
    ELSE IF x[Len(x)] = 0 THEN Norm(SubSeq(x, 1, Len(x) - 1))
    ELSE x

RECURSIVE MulAddFrom(_, _, _, _)
MulAddFrom(x, i, m, carry) ==
    IF i > Len(x)
    THEN IF carry = 0 THEN <<>>
         ELSE <<carry % LimbBase>> \o MulAddFrom(x, i, m, carry \div LimbBase)
    ELSE LET t == x[i] * m + carry
         IN  <<t % LimbBase>> \o MulAddFrom(x, i + 1, m, t \div LimbBase)

\* x * m + a for a natural x and small naturals m > 0 and a
MulAdd(x, m, a) == Norm(MulAddFrom(x, 1, m, a))

RECURSIVE QuotRem(_, _)
\* x divided by a small d: quotient limbs (not normalised) and remainder
QuotRem(x, d) ==
    IF x = <<>> THEN [q |-> <<>>, r |-> 0]
    ELSE LET hi  == QuotRem(Tail(x), d)
             cur == hi.r * LimbBase + x[1]
         IN  [q |-> <<cur \div d>> \o hi.q, r |-> cur % d]

RECURSIVE DecDigits(_)
DecDigits(x) ==
    IF x = <<>> THEN <<>>
    ELSE LET qr == QuotRem(x, 10) IN DecDigits(Norm(qr.q)) \o <<qr.r>>

\* the decimal digits of a natural, most significant first (str(int))
ToDecimal(x) == IF x = <<>> THEN <<0>> ELSE DecDigits(x)

RECURSIVE FromDecimalFrom(_, _, _)
FromDecimalFrom(ds, i, acc) ==
    IF i > Len(ds) THEN acc
    ELSE FromDecimalFrom(ds, i + 1, MulAdd(acc, 10, ds[i]))

\* the natural written with the decimal digits ds (an int literal)
FromDecimal(ds) == FromDecimalFrom(ds, 1, <<>>)

\* a natural below 2^31 as a Python int
PyInt(n) == Norm(<<n % LimbBase, n \div LimbBase>>)

IsNeg(x) == x # <<>> /\ x[Len(x)] < 0

(***************************************************************************)
(* client.py: LightPoolClient._action_name_to_u64                          *)
(***************************************************************************)
BASE == 32
NAME_LENGTH == 12

\* ord() of the characters the packer compares with
Ord_underscore == 95
Ord_1 == 49
Ord_5 == 53
Ord_a == 97
Ord_z == 122

Raise(type, msg) == [t |-> "raise", type |-> type, msg |-> msg]
Return(v) == [t |-> "return", v |-> v]

\* the packer without its padding loop
PadNameSkipped(result, chars_processed) == result

RECURSIVE PadName(_, _)
\* client.py:248-251, the while loop
PadName(result, chars_processed) ==
    IF chars_processed < NAME_LENGTH
    THEN PadName(MulAdd(result, BASE, 0), chars_processed + 1)
    ELSE result

RECURSIVE FoldNameLettersFrom5(_, _, _)
\* the packer with the letters starting at 5, the value of the digit '5'
FoldNameLettersFrom5(action_name, i, result) ==
    IF i > Len(action_name)
    THEN Return(PadName(result, Len(action_name)))
    ELSE LET c == action_name[i] IN
         IF c = Ord_underscore
         THEN FoldNameLettersFrom5(action_name, i + 1, MulAdd(result, BASE, 0))
         ELSE IF Ord_1 <= c /\ c <= Ord_5
         THEN FoldNameLettersFrom5(action_name, i + 1, MulAdd(result, BASE, c - Ord_1 + 1))
         ELSE IF Ord_a <= c /\ c <= Ord_z
         THEN FoldNameLettersFrom5(action_name, i + 1, MulAdd(result, BASE, c - Ord_a + 5))
         ELSE Raise("ValueError", "Invalid character in action name")

RECURSIVE FoldName(_, _, _)
\* client.py:234-253, the for loop, then the padding and the return
FoldName(action_name, i, result) ==
    IF i > Len(action_name)
    THEN Return(PadName(result, Len(action_name)))
    ELSE LET c == action_name[i] IN
         IF c = Ord_underscore
         THEN FoldName(action_name, i + 1, MulAdd(result, BASE, 0))
         ELSE IF Ord_1 <= c /\ c <= Ord_5
         THEN FoldName(action_name, i + 1, MulAdd(result, BASE, c - Ord_1 + 1))
         ELSE IF Ord_a <= c /\ c <= Ord_z
         THEN FoldName(action_name, i + 1, MulAdd(result, BASE, c - Ord_a + 6))
         ELSE Raise("ValueError", "Invalid character in action name")

\* the packer without the check of the length
_action_name_to_u64_any_length(action_name) == FoldName(action_name, 1, <<>>)

_action_name_to_u64(action_name) ==
    IF Len(action_name) > NAME_LENGTH
    THEN Raise("ValueError", "Action name too long")
    ELSE FoldName(action_name, 1, <<>>)

(***************************************************************************)
(* Python values and the struct module                                     *)
(***************************************************************************)
RECURSIVE Repeat(_, _)
\* [c] * n
Repeat(c, n) == IF n = 0 THEN <<>> ELSE <<c>> \o Repeat(c, n - 1)

IntV(x)  == [t |-> "int", v |-> x]
BoolV(b) == [t |-> "bool", v |-> b]
NoneV    == [t |-> "None"]
EnumV(cls, name) == [t |-> "enum", cls |-> cls, name |-> name]
BytesV(b) == [t |-> "bytes", v |-> b]
StrV(s)   == [t |-> "str", v |-> s]

RECURSIVE LimbBytes(_, _, _)
\* the n/2 low limbs of x from limb i on, each as its low and its high byte
LimbBytes(x, i, n) ==
    IF n = 0 THEN <<>>
    ELSE LET l == IF i <= Len(x) THEN x[i] ELSE 0
         IN  <<l % 256, l \div 256>> \o LimbBytes(x, i + 1, n - 2)

\* struct.pack('<H' | '<I' | '<Q', value) for size 2, 4, 8: an int (or bool)
\* in 0 .. 2^(8*size) - 1 as size little-endian bytes, struct.error otherwise
pack_uint(value, size) ==
    IF value.t = "bool"
    THEN Return(<<IF value.v THEN 1 ELSE 0>> \o Repeat(0, size - 1))
    ELSE IF value.t # "int"
    THEN Raise("struct.error", "required argument is not an integer")
    ELSE IF IsNeg(value.v) \/ 2 * Len(value.v) > size
    THEN Raise("struct.error", "argument out of range")
    ELSE Return(LimbBytes(value.v, 1, size))

\* bool(value), for the values the records hold
truthy(value) ==
    CASE value.t = "bool" -> value.v
      [] value.t = "int"  -> value.v # <<>>
      [] value.t = "None" -> FALSE
      [] value.t \in {"bytes", "str"} -> value.v # <<>>
      [] OTHER -> TRUE

\* struct.pack('<?', value): one byte, 1 when the value is truthy
pack_bool(value) == Return(<<IF truthy(value) THEN 1 ELSE 0>>)

RECURSIVE Statements(_, _, _)
\* the statements `result += part` in order: the first part that raises ends
\* the function with its exception, otherwise the parts are concatenated
Statements(parts, i, result) ==
    IF i > Len(parts) THEN Return(result)
    ELSE IF parts[i].t = "raise" THEN parts[i]
    ELSE Statements(parts, i + 1, result \o parts[i].v)

(***************************************************************************)
(* types.py: the enums                                                     *)
(***************************************************************************)
\* OrderSide.to_rust_index
OrderSide_to_rust_index(self) ==
    Return(IntV(IF self.name = "BUY" THEN <<>> ELSE <<1>>))

\* TimeInForce.to_rust_index: the mapping has no entry for FOK, which the
\* class body defines after the method
TimeInForce_to_rust_index(self) ==
    CASE self.name = "GTC" -> Return(IntV(<<>>))
      [] self.name = "IOC" -> Return(IntV(<<1>>))
      [] OTHER -> Raise("KeyError", "TimeInForce")

\* the discriminant taken from the position of the member in the class
MarketState_ordinal(self) ==
    CASE self.name = "ACTIVE" -> Return(IntV(<<>>))
      [] self.name = "PAUSED" -> Return(IntV(<<1>>))
      [] self.name = "CLOSED" -> Return(IntV(<<2>>))

\* MarketState.to_rust_index
MarketState_to_rust_index(self) ==
    CASE self.name = "ACTIVE" -> Return(IntV(<<>>))
      [] self.name = "PAUSED" -> Return(IntV(<<1>>))
      [] self.name = "CLOSED" -> Return(IntV(<<4>>))

\* value.to_rust_index() for an enum member
to_rust_index(value) ==
    CASE value.cls = "OrderSide"   -> OrderSide_to_rust_index(value)
      [] value.cls = "TimeInForce" -> TimeInForce_to_rust_index(value)
      [] value.cls = "MarketState" -> MarketState_to_rust_index(value)

\* y, which is computed from what x returned, unless x raised: then its exception
Then(x, y) == IF x.t = "raise" THEN x ELSE y

(***************************************************************************)
(* bincode.py: serialize_place_order_params                                *)
(***************************************************************************)
PackU32(v) == pack_uint(v, 4)
PackU64(v) == pack_uint(v, 8)

\* bincode.py:79
side_index(params) ==
    IF params.side.t \in {"int", "bool"} THEN Return(params.side)
    ELSE IF params.side.t = "enum" THEN to_rust_index(params.side)
    ELSE Raise("AttributeError", "to_rust_index")

\* bincode.py:92-96
tif_index(params) ==
    IF params.tif.t = "enum" THEN to_rust_index(params.tif)
    ELSE IF params.tif.t \in {"int", "bool"} THEN Return(params.tif)
    ELSE Raise("TypeError", "int() argument")

\* bincode.py:90-111, the payload of the variant
order_type_payload(params) ==
    IF params.order_type.t = "int" /\ params.order_type.v = <<>>
    THEN <<Then(tif_index(params), PackU32(tif_index(params).v))>>
    ELSE IF params.order_type.t = "int" /\ params.order_type.v = <<1>>
    THEN <<PackU64(params.slippage)>>
    ELSE IF params.order_type.t = "int" /\ params.order_type.v = <<2>>
    THEN <<PackU64(params.trigger_price),
           pack_bool(params.is_market),
           PackU32(params.trigger_type)>>
    ELSE <<>>

\* the encoder with limit_price written before the variant's payload
serialize_place_order_params_price_first(params) ==
    Statements(
        <<Then(side_index(params), PackU32(side_index(params).v)),
          PackU64(params.amount),
          PackU32(params.order_type),
          PackU64(params.limit_price)>>
        \o order_type_payload(params),
        1, <<>>)

serialize_place_order_params(params) ==
    Statements(
        <<Then(side_index(params), PackU32(side_index(params).v)),
          PackU64(params.amount),
          PackU32(params.order_type)>>
        \o order_type_payload(params)
        \o <<PackU64(params.limit_price)>>,
        1, <<>>)

(***************************************************************************)
(* bincode.py: serialize_update_market_params                              *)
(***************************************************************************)
\* Option<T>: b'\x00' for None, b'\x01' and the packed value otherwise
Option(value, packed) ==
    IF value.t = "None" THEN Return(<<0>>)
    ELSE Statements(<<Return(<<1>>), packed>>, 1, <<>>)

PackU16(v) == pack_uint(v, 2)

\* bincode.py:196-197
PackState(state) ==
    IF state.t = "enum"
    THEN Then(to_rust_index(state), PackU32(to_rust_index(state).v))
    ELSE Raise("AttributeError", "to_rust_index")

\* a field that is falsy (0, False) taken for an absent one
Falsy(value) == IF truthy(value) THEN value ELSE NoneV

\* the encoder testing `if field:` instead of `if field is not None:`
serialize_update_market_params_if_truthy(params) ==
    Statements(
        <<Option(Falsy(params.min_order_size), PackU64(params.min_order_size)),
          Option(Falsy(params.maker_fee_bps), PackU16(params.maker_fee_bps)),
          Option(Falsy(params.taker_fee_bps), PackU16(params.taker_fee_bps)),
          Option(Falsy(params.allow_market_orders), pack_bool(params.allow_market_orders)),
          Option(params.state, PackState(params.state))>>,
        1, <<>>)

serialize_update_market_params(params) ==
    Statements(
        <<Option(params.min_order_size, PackU64(params.min_order_size)),
          Option(params.maker_fee_bps, PackU16(params.maker_fee_bps)),
          Option(params.taker_fee_bps, PackU16(params.taker_fee_bps)),
          Option(params.allow_market_orders, pack_bool(params.allow_market_orders)),
          Option(params.state, PackState(params.state))>>,
        1, <<>>)

(***************************************************************************)
(* bytes and str conversions: bytes.hex, bytes.fromhex, repr, int.from_bytes *)
(***************************************************************************)
\* the character of one hexadecimal digit, lower case
HexChar(d) == IF d < 10 THEN 48 + d ELSE 87 + d

\* bytes.hex(): two digits per byte, the high one first
hex(b) ==
    [i \in 1..(2 * Len(b)) |->
        IF i % 2 = 1 THEN HexChar(b[(i + 1) \div 2] \div 16)
        ELSE HexChar(b[i \div 2] % 16)]

\* the value of a hexadecimal digit character, -1 for any other character
HexValue(c) ==
    IF 48 <= c /\ c <= 57 THEN c - 48
    ELSE IF 97 <= c /\ c <= 102 THEN c - 87
    ELSE IF 65 <= c /\ c <= 70 THEN c - 55
    ELSE -1

AsciiWhitespace == {9, 10, 11, 12, 13, 32}

RECURSIVE fromhex(_, _, _)
\* bytes.fromhex(s) from position i on: two digits per byte, ASCII
\* whitespace between bytes is skipped, anything else is a ValueError
fromhex(s, i, result) ==
    IF i > Len(s) THEN Return(result)
    ELSE IF s[i] \in AsciiWhitespace THEN fromhex(s, i + 1, result)
    ELSE IF i + 1 > Len(s) \/ HexValue(s[i]) < 0 \/ HexValue(s[i + 1]) < 0
    THEN Raise("ValueError", "non-hexadecimal number found in fromhex() arg")
    ELSE fromhex(s, i + 2, Append(result, 16 * HexValue(s[i]) + HexValue(s[i + 1])))

\* has b the byte c
HasByte(b, c) == \E i \in 1..Len(b) : b[i] = c

RECURSIVE repr_body(_, _)
\* the escaped bytes between the quotes of repr(bytes), quote is the delimiter
repr_body(b, quote) ==
    IF b = <<>> THEN <<>>
    ELSE LET c == b[1]
             e == IF c = quote \/ c = 92 THEN <<92, c>>
                  ELSE IF c = 9  THEN <<92, 116>>
                  ELSE IF c = 10 THEN <<92, 110>>
                  ELSE IF c = 13 THEN <<92, 114>>
                  ELSE IF c < 32 \/ c >= 127
                  THEN <<92, 120, HexChar(c \div 16), HexChar(c % 16)>>
                  ELSE <<c>>
         IN  e \o repr_body(Tail(b), quote)

\* repr(bytes): b'...' or, when the bytes hold ' and no ", b"..."
repr_bytes(b) ==
    LET quote == IF HasByte(b, 39) /\ ~HasByte(b, 34) THEN 34 ELSE 39
    IN  <<98, quote>> \o repr_body(b, quote) \o <<quote>>

RECURSIVE BytesLimbs(_)
BytesLimbs(b) ==
    IF b = <<>> THEN <<>>
    ELSE IF Len(b) = 1 THEN <<b[1]>>
    ELSE <<b[1] + 256 * b[2]>> \o BytesLimbs(SubSeq(b, 3, Len(b)))

\* int.from_bytes(b, 'little')
from_bytes_little(b) == Norm(BytesLimbs(b))

\* str(value) of the values an order_id can hold
str(value) ==
    CASE value.t = "str"      -> value.v
      [] value.t = "bytes"    -> repr_bytes(value.v)
      [] value.t = "OrderId"  -> <<48, 120>> \o hex(value.bytes)
      [] value.t = "ObjectID" -> <<48, 120>> \o hex(value.value)
      [] value.t = "Address"  -> <<48, 120>> \o hex(value.value)

\* s.startswith('0x')
startswith_0x(s) == Len(s) >= 2 /\ s[1] = 48 /\ s[2] = 120

\* b[start:end]
Slice(b, start, end) ==
    SubSeq(b, start + 1, IF end < Len(b) THEN end ELSE Len(b))

(***************************************************************************)
(* bincode.py: serialize_cancel_order_params                               *)
(***************************************************************************)
\* hasattr(value, 'value'): ObjectID and Address have the attribute; the
\* OrderId class in force (types.py:486) keeps its data in `bytes`
hasattr_value(value) == value.t \in {"ObjectID", "Address"}

\* bincode.py:126-139
order_id_bytes(params) ==
    IF hasattr_value(params.order_id) THEN Return(params.order_id.value)
    ELSE LET s == str(params.order_id)
             order_id_str == IF startswith_0x(s) THEN SubSeq(s, 3, Len(s)) ELSE s
         IN  IF Len(order_id_str) # 32
             THEN Raise("ValueError", "Invalid OrderId length")
             ELSE fromhex(order_id_str, 1, <<>>)

\* the loop body taking 8 bytes of the reference for each word
expand_chunk_wide(bytes16, i) ==
    LET start == i * 8
        end   == IF start + 8 < Len(bytes16) THEN start + 8 ELSE Len(bytes16)
        chunk == Slice(bytes16, start, end)
        padded == chunk \o Repeat(0, 8 - Len(chunk))
    IN  PackU64(IntV(from_bytes_little(padded)))

\* bincode.py:146-152, one pass of the loop
expand_chunk(bytes16, i) ==
    LET start == i * 4
        end   == IF start + 4 < Len(bytes16) THEN start + 4 ELSE Len(bytes16)
        chunk == Slice(bytes16, start, end)
        padded == chunk \o Repeat(0, 8 - Len(chunk))
    IN  PackU64(IntV(from_bytes_little(padded)))

\* bincode.py:142-156
expand_order_id(b) ==
    IF Len(b) = 16
    THEN Statements([i \in 1..4 |-> expand_chunk(b, i - 1)], 1, <<>>)
    ELSE Return(b)

serialize_cancel_order_params(params) ==
    Then(order_id_bytes(params), expand_order_id(order_id_bytes(params).v))

(***************************************************************************)
(* transaction.py: Action and ActionBuilder.cancel_order                   *)
(***************************************************************************)
Action(action_type, params, input_objects, target_address, module_address) ==
    [action_type |-> action_type, params |-> params,
     input_objects |-> input_objects,
     target_address |-> target_address, module_address |-> module_address]

\* "ord_cancel"
Name_ord_cancel == <<111, 114, 100, 95, 99, 97, 110, 99, 101, 108>>

\* ActionBuilder.cancel_order: the params of the Action are params.order_id itself
cancel_order(market_address, market_id, params) ==
    Return(Action(Name_ord_cancel, params.order_id, <<market_id>>,
                  market_address, market_address))

(***************************************************************************)
(* bytes.decode('utf-8')                                                   *)
(***************************************************************************)
IsCont(b, i) == i <= Len(b) /\ 128 <= b[i] /\ b[i] <= 191

\* the number of bytes of the UTF-8 sequence that starts at b[i], 0 when the
\* bytes at i are not a well-formed sequence
Utf8Width(b, i) ==
    LET c == b[i]
        second == IF i + 1 <= Len(b) THEN b[i + 1] ELSE -1
    IN  IF c < 128 THEN 1
        ELSE IF 194 <= c /\ c <= 223
        THEN IF IsCont(b, i + 1) THEN 2 ELSE 0
        ELSE IF 224 <= c /\ c <= 239
        THEN IF /\ IsCont(b, i + 1) /\ IsCont(b, i + 2)
                /\ (c = 224 => second >= 160)
                /\ (c = 237 => second <= 159)
             THEN 3 ELSE 0
        ELSE IF 240 <= c /\ c <= 244
        THEN IF /\ IsCont(b, i + 1) /\ IsCont(b, i + 2) /\ IsCont(b, i + 3)
                /\ (c = 240 => second >= 144)
                /\ (c = 244 => second <= 143)
             THEN 4 ELSE 0
        ELSE 0

\* the code point of the well-formed sequence of w bytes at b[i]
Utf8CodePoint(b, i, w) ==
    CASE w = 1 -> b[i]
      [] w = 2 -> (b[i] - 192) * 64 + (b[i + 1] - 128)
      [] w = 3 -> (b[i] - 224) * 4096 + (b[i + 1] - 128) * 64 + (b[i + 2] - 128)
      [] w = 4 -> (b[i] - 240) * 262144 + (b[i + 1] - 128) * 4096
                    + (b[i + 2] - 128) * 64 + (b[i + 3] - 128)

RECURSIVE utf8_decode(_, _, _)
\* b[i:].decode('utf-8') appended to result
utf8_decode(b, i, result) ==
    IF i > Len(b) THEN Return(result)
    ELSE LET w == Utf8Width(b, i) IN
         IF w = 0
         THEN Raise("UnicodeDecodeError", [field |-> "", part |-> "utf-8"])
         ELSE utf8_decode(b, i + w, Append(result, Utf8CodePoint(b, i, w)))

(***************************************************************************)
(* bincode.py: deserialize_market_created_event and                        *)
(* deserialize_token_created_event                                         *)
(***************************************************************************)
Field(name, kind) == [name |-> name, kind |-> kind]

\* the fields in the order the decoder reads them, bincode.py:351-418
TokenCreatedLayout ==
    <<Field("token_id", "ObjectID"), Field("token_address", "Address"),
      Field("name", "str"), Field("symbol", "str"),
      Field("total_supply", "u64"), Field("creator", "Address"),
      Field("mintable", "bool"), Field("to", "Address"),
      Field("balance_id", "ObjectID")>>

\* bincode.py:225-326
MarketCreatedLayout ==
    <<Field("market_id", "ObjectID"), Field("market_address", "Address"),
      Field("name", "str"), Field("base_token", "Address"),
      Field("quote_token", "Address"), Field("base_balance", "ObjectID"),
      Field("quote_balance", "ObjectID"), Field("price_index_id", "ObjectID"),
      Field("min_order_size", "u64"), Field("tick_size", "u64"),
      Field("maker_fee_bps", "u16"), Field("taker_fee_bps", "u16"),
      Field("allow_market_orders", "bool"), Field("state", "u32"),
      Field("creator", "Address")>>

\* the bytes each fixed-width read takes
Width(kind) ==
    CASE kind = "ObjectID" -> 16
      [] kind = "Address"  -> 32
      [] kind = "u64"      -> 8
      [] kind = "u32"      -> 4
      [] kind = "u16"      -> 2
      [] kind = "bool"     -> 1

Truncated(field, part) ==
    Raise("ValueError", [field |-> field, part |-> part])

\* the decoder without the check of a string's content length
ShortUnchecked(data, offset, n) == FALSE

\* len(data) < offset + n for the int n read from a length prefix
Short(data, offset, n) ==
    Len(n) > 1 \/ Len(data) < offset + (IF n = <<>> THEN 0 ELSE n[1])

\* the value of a fixed-width field from its bytes
FixedValue(kind, b) ==
    CASE kind = "ObjectID" -> [t |-> "ObjectID", value |-> b]
      [] kind = "Address"  -> [t |-> "Address", value |-> b]
      [] kind = "bool"     -> BoolV(b[1] # 0)
      [] OTHER             -> IntV(from_bytes_little(b))

RECURSIVE read_fields(_, _, _, _, _)
\* the reads of the fields from the i-th on, data[offset:] left to read
read_fields(data, layout, i, offset, event) ==
    IF i > Len(layout) THEN Return(event)
    ELSE LET f == layout[i] IN
         IF f.kind = "str"
         THEN IF Len(data) < offset + 8 THEN Truncated(f.name, "length")
              ELSE LET name_len == from_bytes_little(Slice(data, offset, offset + 8))
                   IN  IF Short(data, offset + 8, name_len)
                       THEN Truncated(f.name, "content")
                       ELSE LET n == IF name_len = <<>> THEN 0 ELSE name_len[1]
                                decoded == utf8_decode(
                                    Slice(data, offset + 8, offset + 8 + n), 1, <<>>)
                            IN  IF decoded.t = "raise" THEN decoded
                                ELSE read_fields(data, layout, i + 1, offset + 8 + n,
                                         event @@ (f.name :> StrV(decoded.v)))
         ELSE IF Len(data) < offset + Width(f.kind)
              THEN Truncated(f.name, "value")
              ELSE read_fields(data, layout, i + 1, offset + Width(f.kind),
                       event @@ (f.name :>
                           FixedValue(f.kind,
                               Slice(data, offset, offset + Width(f.kind)))))

deserialize_market_created_event(data) ==
    read_fields(data, MarketCreatedLayout, 1, 0, [cls |-> "MarketCreatedEvent"])

\* the decoder reading symbol before name
deserialize_token_created_event_symbol_first(data) ==
    read_fields(data,
        [TokenCreatedLayout EXCEPT ![3] = Field("symbol", "str"),
                                   ![4] = Field("name", "str")],
        1, 0, [cls |-> "TokenCreatedEvent"])

deserialize_token_created_event(data) ==
    read_fields(data, TokenCreatedLayout, 1, 0, [cls |-> "TokenCreatedEvent"])

(***************************************************************************)
(* event_parser.py: parse_token_event_data                                 *)
(***************************************************************************)
RECURSIVE utf8_decode_ignore(_, _, _)
\* b[i:].decode('utf-8', errors='ignore') appended to result: a byte that
\* starts no well-formed sequence is skipped
utf8_decode_ignore(b, i, result) ==
    IF i > Len(b) THEN result
    ELSE LET w == Utf8Width(b, i) IN
         IF w = 0 THEN utf8_decode_ignore(b, i + 1, result)
         ELSE utf8_decode_ignore(b, i + w, Append(result, Utf8CodePoint(b, i, w)))

\* f"0x{addr.to_bytes().hex()}"
format_address(addr) == <<48, 120>> \o hex(addr.value)

\* str(obj_id)
format_object_id(obj_id) == str(obj_id)

\* data[start] if start < len(data) else 0
LengthByte(data, start) == IF start < Len(data) THEN data[start + 1] ELSE 0

\* event_parser.py:39-86: the strings are read with a length prefix of one
\* byte, and balance_id right after creator
token_created_data(data) ==
    IF Len(data) < 16 \/ Len(data) < 48 THEN Return(NoneV)
    ELSE LET token_id == FixedValue("ObjectID", Slice(data, 0, 16))
             token_address == FixedValue("Address", Slice(data, 16, 48))
             name_start == 48
             name_length == LengthByte(data, name_start)
             name_end == name_start + 1 + name_length
             name == utf8_decode_ignore(Slice(data, name_start + 1, name_end), 1, <<>>)
             symbol_start == name_end
             symbol_length == LengthByte(data, symbol_start)
             symbol_end == symbol_start + 1 + symbol_length
             symbol == utf8_decode_ignore(Slice(data, symbol_start + 1, symbol_end), 1, <<>>)
             total_supply_start == symbol_end
             creator_start == total_supply_start + 8
             balance_start == creator_start + 32
         IN  IF /\ total_supply_start + 8 <= Len(data)
                /\ creator_start + 32 <= Len(data)
                /\ balance_start + 16 <= Len(data)
             THEN Return(
                 [t |-> "dict",
                  token_id |-> StrV(format_object_id(token_id)),
                  token_address |-> StrV(format_address(token_address)),
                  name |-> StrV(name),
                  symbol |-> StrV(symbol),
                  total_supply |-> IntV(from_bytes_little(
                      Slice(data, total_supply_start, total_supply_start + 8))),
                  creator |-> StrV(format_address(FixedValue("Address",
                      Slice(data, creator_start, creator_start + 32)))),
                  balance_id |-> StrV(format_object_id(FixedValue("ObjectID",
                      Slice(data, balance_start, balance_start + 16))))])
             ELSE Return(NoneV)

\* event_parser.py:88-128
transfer_data(data) ==
    IF Len(data) < 104 THEN Return(NoneV)
    ELSE Return(
        [t |-> "dict",
         from |-> StrV(format_address(FixedValue("Address", Slice(data, 0, 32)))),
         to |-> StrV(format_address(FixedValue("Address", Slice(data, 32, 64)))),
         amount |-> IntV(from_bytes_little(Slice(data, 64, 72))),
         original_balance_id |-> StrV(format_object_id(
             FixedValue("ObjectID", Slice(data, 72, 88)))),
         to_balance_id |-> StrV(format_object_id(
             FixedValue("ObjectID", Slice(data, 88, 104)))),
         remainder_id |-> IF Len(data) >= 120
                          THEN StrV(format_object_id(
                                   FixedValue("ObjectID", Slice(data, 104, 120))))
                          ELSE NoneV,
         remainder |-> IF Len(data) >= 128
                       THEN IntV(from_bytes_little(Slice(data, 120, 128)))
                       ELSE IntV(<<>>)])

\* parse_token_event_data(event_type, data); none of the statements in the
\* try block raises for bytes
parse_token_event_data(event_type, data) ==
    IF event_type = "token_created" THEN token_created_data(data)
    ELSE IF event_type = "Transfer" THEN transfer_data(data)
    ELSE Return(NoneV)

(***************************************************************************)
(* json.dumps(obj, sort_keys=True, separators=(',', ':')) and str.encode   *)
(***************************************************************************)
JStr(chars)  == [j |-> "str", v |-> chars]
JInt(x)      == [j |-> "int", v |-> x]
JList(items) == [j |-> "list", v |-> items]
\* a dict: its <<key, value>> pairs in insertion order
JDict(pairs) == [j |-> "dict", v |-> pairs]

RECURSIVE StrLess(_, _)
\* a < b for two str, by code points
StrLess(a, b) ==
    IF b = <<>> THEN FALSE
    ELSE IF a = <<>> THEN TRUE
    ELSE IF a[1] # b[1] THEN a[1] < b[1]
    ELSE StrLess(Tail(a), Tail(b))

RECURSIVE InsertPair(_, _)
InsertPair(pair, sorted) ==
    IF sorted = <<>> THEN <<pair>>
    ELSE IF StrLess(pair[1], sorted[1][1]) THEN <<pair>> \o sorted
    ELSE <<sorted[1]>> \o InsertPair(pair, Tail(sorted))

RECURSIVE SortKeys(_)
\* sort_keys=True: the pairs of a dict by key
SortKeys(pairs) ==
    IF pairs = <<>> THEN <<>>
    ELSE InsertPair(pairs[1], SortKeys(Tail(pairs)))

RECURSIVE Escape(_)
Escape(chars) ==
    IF chars = <<>> THEN <<>>
    ELSE (IF chars[1] \in {34, 92} THEN <<92, chars[1]>> ELSE <<chars[1]>>)
            \o Escape(Tail(chars))

\* the characters of a str between the quotes: " and \ are escaped (the
\* strings serialized here are ASCII without control characters)
JsonString(chars) ==
    IF \A i \in 1..Len(chars) : chars[i] \notin {34, 92} THEN chars
    ELSE Escape(chars)

DigitChars(ds) == [i \in 1..Len(ds) |-> 48 + ds[i]]

RECURSIVE dumps(_)
RECURSIVE DumpItems(_, _)
RECURSIVE DumpPairs(_, _)
\* the items of a list from the i-th on, separated by ','
DumpItems(items, i) ==
    IF i > Len(items) THEN <<>>
    ELSE (IF i > 1 THEN <<44>> ELSE <<>>) \o dumps(items[i]) \o DumpItems(items, i + 1)

\* "key":value of the pairs from the i-th on, separated by ','
DumpPairs(pairs, i) ==
    IF i > Len(pairs) THEN <<>>
    ELSE (IF i > 1 THEN <<44>> ELSE <<>>)
            \o <<34>> \o JsonString(pairs[i][1]) \o <<34, 58>> \o dumps(pairs[i][2])
            \o DumpPairs(pairs, i + 1)

dumps(x) ==
    CASE x.j = "str"  -> <<34>> \o JsonString(x.v) \o <<34>>
      [] x.j = "int"  -> DigitChars(ToDecimal(x.v))
      [] x.j = "list" -> <<91>> \o DumpItems(x.v, 1) \o <<93>>
      [] x.j = "dict" -> <<123>> \o DumpPairs(SortKeys(x.v), 1) \o <<125>>

\* the UTF-8 bytes of one code point below 0x10000
encode_char(c) ==
    IF c < 128 THEN <<c>>
    ELSE IF c < 2048 THEN <<192 + (c \div 64), 128 + (c % 64)>>
    ELSE <<224 + (c \div 4096), 128 + ((c \div 64) % 64), 128 + (c % 64)>>

RECURSIVE EncodeRange(_, _, _)
\* the bytes of chars[lo..hi]
EncodeRange(chars, lo, hi) ==
    IF lo > hi THEN <<>>
    ELSE IF lo = hi THEN encode_char(chars[lo])
    ELSE LET mid == (lo + hi) \div 2
         IN  EncodeRange(chars, lo, mid) \o EncodeRange(chars, mid + 1, hi)

\* str.encode('utf-8'): ASCII text is its own encoding
encode_utf8(chars) ==
    IF \A i \in 1..Len(chars) : chars[i] < 128 THEN chars
    ELSE EncodeRange(chars, 1, Len(chars))

(***************************************************************************)
(* bincode.py: serialize_create_token_params and                           *)
(* serialize_create_market_params                                          *)
(***************************************************************************)
\* CompactString: value.encode('utf-8'), then struct.pack('<Q', len(b)) + b
CompactString(value) ==
    IF value.t # "str" THEN Raise("AttributeError", "encode")
    ELSE LET b == encode_utf8(value.v)
             n == PackU64(IntV(PyInt(Len(b))))
         IN  Then(n, Return(n.v \o b))

\* result += value, for the bytes result: any bytes object is appended whole
AppendBytes(value) ==
    IF value.t = "bytes" THEN Return(value.v)
    ELSE Raise("TypeError", "can't concat")

\* the encoder with symbol written before name
serialize_create_token_params_symbol_first(params) ==
    Statements(
        <<CompactString(params.symbol),
          CompactString(params.name),
          PackU64(params.total_supply),
          pack_bool(params.mintable),
          AppendBytes(params.to)>>,
        1, <<>>)

serialize_create_token_params(params) ==
    Statements(
        <<CompactString(params.name),
          CompactString(params.symbol),
          PackU64(params.total_supply),
          pack_bool(params.mintable),
          AppendBytes(params.to)>>,
        1, <<>>)

serialize_create_market_params(params) ==
    Statements(
        <<CompactString(params.name),
          AppendBytes(params.base_token),
          AppendBytes(params.quote_token),
          PackU64(params.min_order_size),
          PackU64(params.tick_size),
          PackU16(params.maker_fee_bps),
          PackU16(params.taker_fee_bps),
          pack_bool(params.allow_market_orders),
          PackU32(params.state),
          pack_bool(params.limit_order)>>,
        1, <<>>)
(***************************************************************************)
(* crypto.py: Signer.sign and Signer.verify; hashlib.sha256.  Ed25519 and  *)
(* SHA-256 are kept symbolic: a signature is the key and the message it    *)
(* was made over, a hash is the data hashed.                               *)
(***************************************************************************)
sha256(data) == [t |-> "sha256", data |-> data]

\* signing the message behind a byte that holds its length instead of the
\* message itself
sign_length_prefixed(signer, message) ==
    Return([t |-> "signature", key |-> signer.key,
            message |-> <<Len(message) % 256>> \o message])

\* Signer.sign(message)
sign(signer, message) ==
    Return([t |-> "signature", key |-> signer.key, message |-> message])

\* len(value) of bytes; an Ed25519 signature is 64 bytes
len(value) == IF value.t = "signature" THEN 64 ELSE Len(value.v)

\* Ed25519PublicKey.verify(signature, message): returns None for the
\* signature the key made over the message, raises InvalidSignature for any
\* other bytes and TypeError for what is not bytes
public_key_verify(key, signature, message) ==
    IF signature.t \notin {"signature", "bytes"}
    THEN Raise("TypeError", "signature must be bytes")
    ELSE IF signature.t = "signature" /\ signature.key = key
                /\ signature.message = message
    THEN Return(NoneV)
    ELSE Raise("InvalidSignature", <<>>)

\* verify without the except clause
verify_uncaught(signer, message, signature) ==
    Then(public_key_verify(signer.key, signature, message), Return(BoolV(TRUE)))

\* Signer.verify(message, signature)
verify(signer, message, signature) ==
    IF public_key_verify(signer.key, signature, message).t = "raise"
    THEN Return(BoolV(FALSE))
    ELSE Return(BoolV(TRUE))

\* types.py: Digest.from_bytes
Digest_from_bytes(data) == [t |-> "Digest", value |-> sha256(data)]

(***************************************************************************)
(* crypto.py: the constructors of Signer.  The Ed25519 key of a seed is    *)
(* kept symbolic: the private key is the seed, the public key and the      *)
(* address are named by it.                                                *)
(***************************************************************************)
\* ed25519.Ed25519PrivateKey.from_private_bytes(data): every 32 bytes are a
\* key, any other length is a ValueError
from_private_bytes(data) ==
    IF Len(data) = 32 THEN Return(data)
    ELSE Raise("ValueError", "An Ed25519 private key is 32 bytes long")

\* private_key.to_bytes(32, byteorder='big')
to_bytes_32_big(x) ==
    IF IsNeg(x) \/ Len(x) > 16
    THEN Raise("OverflowError", "int too big to convert")
    ELSE Return([i \in 1..32 |-> LimbBytes(x, 1, 32)[33 - i]])

\* private_key.public_key() and its raw 32 bytes
public_key_bytes(key) == [t |-> "public_key", of |-> key]

\* hashlib.sha512(data).digest(), 64 bytes
sha512(data) == [t |-> "sha512", data |-> data]

\* digest[:32]
First32(digest) == [t |-> "first32", of |-> digest]

\* the address taken from the SHA-256 digest of the public key
_compute_address_sha256(key) ==
    [t |-> "Address", value |-> sha256(public_key_bytes(key))]

\* Signer._compute_address
_compute_address(key) ==
    [t |-> "Address", value |-> First32(sha512(public_key_bytes(key)))]

\* crypto.py:45-46, the Signer of a private key
SignerOf(key) ==
    [cls |-> "Signer", key |-> key, _address |-> _compute_address(key)]

\* Signer.address
address(self) == self._address

\* crypto.py:32-41, the body of the try
private_key_from(private_key) ==
    IF private_key.t = "int"
    THEN LET private_key_bytes == to_bytes_32_big(private_key.v)
         IN  Then(private_key_bytes, from_private_bytes(private_key_bytes.v))
    ELSE IF private_key.t # "bytes"
    THEN Raise("TypeError", "object has no len()")
    ELSE IF Len(private_key.v) = 32
    THEN from_private_bytes(private_key.v)
    ELSE Raise("ValueError", "Ed25519 private key must be 32 bytes")

\* the constructor letting the exception of the try pass
Signer_init_unwrapped(private_key, generated) ==
    IF private_key.t = "None" THEN Return(SignerOf(generated))
    ELSE LET made == private_key_from(private_key)
         IN  Then(made, Return(SignerOf(made.v)))

\* Signer.__init__(private_key); generated is the key that
\* Ed25519PrivateKey.generate() draws
Signer_init(private_key, generated) ==
    IF private_key.t = "None" THEN Return(SignerOf(generated))
    ELSE LET made == private_key_from(private_key)
         IN  IF made.t = "raise" THEN Raise("CryptoError", "Invalid private key")
             ELSE Return(SignerOf(made.v))

\* Signer.from_secret_key_bytes(secret_key_bytes)
from_secret_key_bytes(secret_key_bytes, generated) ==
    Signer_init(secret_key_bytes, generated)

\* Signer.from_hex(hex_string)
from_hex(hex_string, generated) ==
    LET digits == IF startswith_0x(hex_string.v)
                  THEN SubSeq(hex_string.v, 3, Len(hex_string.v))
                  ELSE hex_string.v
        secret_key_bytes == fromhex(digits, 1, <<>>)
    IN  Then(secret_key_bytes, Signer_init(BytesV(secret_key_bytes.v), generated))

(***************************************************************************)
(* types.py: Address                                                       *)
(***************************************************************************)
\* Address.__init__(value)
Address_init(value) ==
    IF value.t = "str"
    THEN LET digits == IF startswith_0x(value.v)
                       THEN SubSeq(value.v, 3, Len(value.v)) ELSE value.v
             parsed == fromhex(digits, 1, <<>>)
         IN  IF Len(digits) # 64 THEN Raise("ValueError", "Invalid address length")
             ELSE Then(parsed, Return([t |-> "Address", value |-> parsed.v]))
    ELSE IF value.t = "bytes"
    THEN IF Len(value.v) # 32 THEN Raise("ValueError", "Invalid address length")
         ELSE Return([t |-> "Address", value |-> value.v])
    ELSE IF value.t = "int"
    THEN LET packed == to_bytes_32_big(value.v)
         IN  Then(packed, Return([t |-> "Address", value |-> packed.v]))
    ELSE Raise("ValueError", "Invalid address value")
(***************************************************************************)
(* transaction.py: TransactionBuilder                                      *)
(*                                                                         *)
(* A Python list is an object: `heap` maps the reference of a list to its  *)
(* items, and the builder and the transactions hold references.            *)
(***************************************************************************)
\* the list that TransactionBuilder.__init__ creates
ActionsRef == "builder._actions"

Key_sender        == <<115, 101, 110, 100, 101, 114>>
Key_nonce         == <<110, 111, 110, 99, 101>>
Key_gasBudget     == <<103, 97, 115, 66, 117, 100, 103, 101, 116>>
Key_gasPrice      == <<103, 97, 115, 80, 114, 105, 99, 101>>
Key_expiration    == <<101, 120, 112, 105, 114, 97, 116, 105, 111, 110>>
Key_actions       == <<97, 99, 116, 105, 111, 110, 115>>
Key_actionType    == <<97, 99, 116, 105, 111, 110, 84, 121, 112, 101>>
Key_params        == <<112, 97, 114, 97, 109, 115>>
Key_inputObjects  == <<105, 110, 112, 117, 116, 79, 98, 106, 101, 99, 116, 115>>
Key_targetAddress == <<116, 97, 114, 103, 101, 116, 65, 100, 100, 114, 101, 115, 115>>
Key_moduleAddress == <<109, 111, 100, 117, 108, 101, 65, 100, 100, 114, 101, 115, 115>>

\* TransactionBuilder.__init__
NewBuilder ==
    [_sender |-> NoneV, _nonce |-> <<>>, _gas_budget |-> PyInt(1000000),
     _gas_price |-> <<1>>, _expiration |-> <<65535, 65535, 65535, 65535>>,
     _actions |-> ActionsRef]

\* build without the check of the action list
build_any_actions(self, lists) ==
    IF self._sender.t = "None"
    THEN Raise("ValidationError", "Sender address is required")
    ELSE Return([t |-> "object", cls |-> "Transaction", sender |-> self._sender,
                 nonce |-> self._nonce, gas_budget |-> self._gas_budget,
                 gas_price |-> self._gas_price, expiration |-> self._expiration,
                 actions |-> self._actions])

\* TransactionBuilder.build: the Transaction holds the builder's own list
build(self, lists) ==
    IF self._sender.t = "None"
    THEN Raise("ValidationError", "Sender address is required")
    ELSE IF lists[self._actions] = <<>>
    THEN Raise("ValidationError", "At least one action is required")
    ELSE Return([t |-> "object", cls |-> "Transaction", sender |-> self._sender,
                 nonce |-> self._nonce, gas_budget |-> self._gas_budget,
                 gas_price |-> self._gas_price, expiration |-> self._expiration,
                 actions |-> self._actions])

\* TransactionBuilder._serialize_params: params.hex()
_serialize_params(params) ==
    IF params.t = "bytes" THEN Return(JStr(hex(params.v)))
    ELSE Raise("AttributeError", "hex")

\* transaction.py:386-392, the dict of one action
action_dict(action) ==
    LET params == _serialize_params(action.params) IN
    Then(params,
         Return(JDict(
            <<<<Key_actionType, JStr(action.action_type)>>,
              <<Key_params, params.v>>,
              <<Key_inputObjects,
                JList([i \in 1..Len(action.input_objects) |->
                          JStr(str(action.input_objects[i]))])>>,
              <<Key_targetAddress, JStr(str(action.target_address))>>,
              <<Key_moduleAddress, JStr(str(action.module_address))>>>>)))

RECURSIVE Comprehension(_, _, _)
\* [f(x) for x in items]: the first f(x) that raises ends the comprehension
Comprehension(results, i, done) ==
    IF i > Len(results) THEN Return(done)
    ELSE IF results[i].t = "raise" THEN results[i]
    ELSE Comprehension(results, i + 1, Append(done, results[i].v))

\* transaction.py:379-395
tx_dict(transaction, lists) ==
    LET actions == lists[transaction.actions]
        dicts == Comprehension([i \in 1..Len(actions) |-> action_dict(actions[i])],
                               1, <<>>)
    IN
    Then(dicts,
         Return(JDict(
            <<<<Key_sender, JStr(str(transaction.sender))>>,
              <<Key_nonce, JInt(transaction.nonce)>>,
              <<Key_gasBudget, JInt(transaction.gas_budget)>>,
              <<Key_gasPrice, JInt(transaction.gas_price)>>,
              <<Key_expiration, JInt(transaction.expiration)>>,
              <<Key_actions, JList(dicts.v)>>>>)))

\* TransactionBuilder._serialize_transaction
_serialize_transaction(transaction, lists) ==
    LET d == tx_dict(transaction, lists) IN
    Then(d, Return(encode_utf8(dumps(d.v))))

\* build_and_sign signing the hex text of the serialization instead of the bytes
build_and_sign_hex(self, lists, signer) ==
    LET transaction == build(self, lists)
        tx_bytes == _serialize_transaction(transaction.v, lists)
        signature == sign(signer, hex(tx_bytes.v))
    IN
    Then(transaction, Then(tx_bytes, Then(signature,
        Return([t |-> "object", cls |-> "VerifiedTransaction",
                signed_transaction |->
                    [transaction |-> transaction.v, signatures |-> <<signature.v>>],
                digest |-> Digest_from_bytes(tx_bytes.v)]))))

\* TransactionBuilder.build_and_sign
build_and_sign(self, lists, signer) ==
    LET transaction == build(self, lists)
        tx_bytes == _serialize_transaction(transaction.v, lists)
        signature == sign(signer, tx_bytes.v)
    IN
    Then(transaction, Then(tx_bytes, Then(signature,
        Return([t |-> "object", cls |-> "VerifiedTransaction",
                signed_transaction |->
                    [transaction |-> transaction.v, signatures |-> <<signature.v>>],
                digest |-> Digest_from_bytes(tx_bytes.v)]))))

(***************************************************************************)
(* client.py: LightPoolClient.submit_transaction                           *)
(***************************************************************************)
\* the attributes of the Action dataclass, transaction.py:25-29
ActionAttributes ==
    {"action_type", "params", "input_objects", "target_address", "module_address"}

\* action.<attribute>
getattr(action, attribute) ==
    IF attribute \in ActionAttributes THEN Return(action[attribute])
    ELSE Raise("AttributeError", attribute)

RECURSIVE replace_0x(_)
\* s.replace('0x', '')
replace_0x(s) ==
    IF s = <<>> THEN <<>>
    ELSE IF startswith_0x(s) THEN replace_0x(SubSeq(s, 3, Len(s)))
    ELSE <<s[1]>> \o replace_0x(Tail(s))

\* address_to_bytes and objectid_to_bytes, client.py:142-148
object_to_bytes(obj) == fromhex(replace_0x(str(obj)), 1, <<>>)

\* list(action.params)
list_of_bytes(params) ==
    IF params.t = "bytes" THEN Return(params.v)
    ELSE Raise("TypeError", "object is not iterable")

\* client.py:153-158, the dict of one action
envelope_action(action) ==
    LET inputs == Comprehension([i \in 1..Len(action.input_objects) |->
                                    object_to_bytes(action.input_objects[i])], 1, <<>>)
        contract == object_to_bytes(action.target_address)
        action_name == getattr(action, "action_name")
        packed == _action_name_to_u64(action_name.v)
        params == list_of_bytes(action.params)
    IN
    Then(inputs, Then(contract, Then(action_name, Then(packed, Then(params,
        Return([inputs |-> inputs.v, contract |-> contract.v,
                action |-> packed.v, params |-> params.v]))))))

\* the conversion cutting or zero-padding the signature to 64 bytes
_signature_to_rust_format_padded(signature) ==
    IF signature.t \notin {"signature", "bytes"}
    THEN Raise("TypeError", "object has no len()")
    ELSE IF signature.t = "signature"
    THEN Return([part1 |-> [half |-> 1, of |-> signature],
                 part2 |-> [half |-> 2, of |-> signature]])
    ELSE LET padded == SubSeq(signature.v \o Repeat(0, 64), 1, 64)
         IN  Return([part1 |-> SubSeq(padded, 1, 32), part2 |-> SubSeq(padded, 33, 64)])

\* LightPoolClient._signature_to_rust_format: the two halves of the 64 bytes
\* of an Ed25519 signature
_signature_to_rust_format(signature) ==
    IF signature.t \notin {"signature", "bytes"}
    THEN Raise("TypeError", "object has no len()")
    ELSE IF len(signature) # 64
    THEN Raise("ValueError", "Unsupported signature format")
    ELSE IF signature.t = "signature"
    THEN Return([part1 |-> [half |-> 1, of |-> signature],
                 part2 |-> [half |-> 2, of |-> signature]])
    ELSE Return([part1 |-> SubSeq(signature.v, 1, 32),
                 part2 |-> SubSeq(signature.v, 33, Len(signature.v))])

\* client.py:150-192, the SubmitTransactionParams handed to _make_request
submit_transaction(transaction, lists) ==
    LET tx == transaction.signed_transaction.transaction
        actions == lists[tx.actions]
        sigs == transaction.signed_transaction.signatures
        actions_list ==
            Comprehension([i \in 1..Len(actions) |-> envelope_action(actions[i])], 1, <<>>)
        sender_bytes == object_to_bytes(tx.sender)
        signatures_list ==
            Comprehension([i \in 1..Len(sigs) |-> _signature_to_rust_format(sigs[i])],
                          1, <<>>)
    IN
    Then(actions_list, Then(sender_bytes, Then(signatures_list,
        Return([tx |-> [transaction |-> [sender |-> sender_bytes.v,
                                         expiration |-> tx.expiration,
                                         actions |-> actions_list.v],
                        signatures |-> signatures_list.v]]))))

(***************************************************************************)
(* Inputs of the packer                                                    *)
(***************************************************************************)
MaxNameLen == 2

NameChars == {Ord_underscore, Ord_1, Ord_5, Ord_a, Ord_z}

RECURSIVE SeqsUpTo(_, _)
SeqsUpTo(S, n) ==
    IF n = 0 THEN {<<>>}
    ELSE LET shorter == SeqsUpTo(S, n - 1)
         IN  shorter \cup {Append(s, c) : s \in {u \in shorter : Len(u) = n - 1}, c \in S}

\* "ord_place", "mkt_create"
Name_ord_place  == <<111, 114, 100, 95, 112, 108, 97, 99, 101>>
Name_mkt_create == <<109, 107, 116, 95, 99, 114, 101, 97, 116, 101>>

\* names that fill all twelve positions, and the same names cut short
LongNames ==
    { Name_ord_place, Name_ord_cancel, Name_mkt_create,
      Name_ord_place \o Repeat(Ord_underscore, 3),
      Name_ord_place \o <<Ord_underscore, Ord_underscore, Ord_z>>,
      Repeat(Ord_z, 12), Repeat(Ord_z, 11), Repeat(Ord_underscore, 12),
      Repeat(Ord_z, 11) \o <<Ord_underscore>> }

ValidNames == SeqsUpTo(NameChars, MaxNameLen) \cup LongNames

\* '0', '6', '9', 'A', 'Z', ' ', the neighbours '^', '`', '{' of the alphabet
\* and a character beyond ASCII
BadChars == {48, 54, 57, 65, 90, 32, 94, 96, 123, 233}

\* names with a character outside the alphabet, names of more than twelve
\* characters, and both
InvalidNames ==
    {<<c>> : c \in BadChars} \cup {<<Ord_a, c>> : c \in BadChars}
    \cup {<<c, Ord_5>> : c \in BadChars}
    \cup { Repeat(Ord_a, 13), Repeat(Ord_underscore, 20),
           Name_ord_place \o <<Ord_underscore>> \o Name_ord_place,
           <<65>> \o Repeat(Ord_a, 12), Repeat(Ord_a, 12) \o <<48>>,
           Repeat(Ord_a, 11) \o <<65>>, <<54>> \o Repeat(Ord_z, 11) }

PackCalls ==
    {[fn |-> "action_name_to_u64", action_name |-> n] :
        n \in ValidNames \cup InvalidNames}

(***************************************************************************)
(* Inputs of the parameter codec                                           *)
(***************************************************************************)
U64Max == <<65535, 65535, 65535, 65535>>

\* 5,000,000 and 50,000,000,000, the amount and price of the golden vector
Amount5M == FromDecimal(<<5,0,0,0,0,0,0>>)
Price50G == FromDecimal(<<5,0,0,0,0,0,0,0,0,0,0>>)

U64Samples == {<<>>, Amount5M, Price50G, U64Max}

Sides == {IntV(<<>>), IntV(<<1>>), EnumV("OrderSide", "BUY"), EnumV("OrderSide", "SELL")}

Tifs == {IntV(<<>>), IntV(<<1>>), IntV(<<2>>),
         EnumV("TimeInForce", "GTC"), EnumV("TimeInForce", "IOC"),
         EnumV("TimeInForce", "FOK")}

\* PlaceOrderParams with the attrs defaults of types.py:362-366
PlaceOrderParams(side, amount, order_type, limit_price) ==
    [side |-> side, amount |-> IntV(amount), order_type |-> IntV(order_type),
     limit_price |-> IntV(limit_price),
     tif |-> IntV(<<>>), slippage |-> IntV(<<100>>),
     trigger_price |-> IntV(<<>>), is_market |-> BoolV(FALSE),
     trigger_type |-> IntV(<<>>)]

LimitParams ==
    {[PlaceOrderParams(s, a, <<>>, p) EXCEPT !.tif = tif] :
        s \in Sides, a \in U64Samples \ {Price50G}, p \in U64Samples \ {Amount5M},
        tif \in Tifs}

MarketParams ==
    {[PlaceOrderParams(s, a, <<1>>, p) EXCEPT !.slippage = IntV(sl)] :
        s \in Sides, a \in U64Samples \ {Price50G}, p \in U64Samples \ {Amount5M},
        sl \in {<<100>>, <<200>>, U64Max}}

TriggerParams ==
    {[PlaceOrderParams(s, a, <<2>>, p) EXCEPT
          !.trigger_price = IntV(tp), !.is_market = BoolV(m),
          !.trigger_type = IntV(tt)] :
        s \in Sides, a \in {<<>>, Amount5M}, p \in {Price50G, U64Max},
        tp \in {<<>>, Price50G}, m \in BOOLEAN, tt \in {<<>>, <<1>>}}

\* hasattr(value, "to_rust_index"): the enum members have the method
hasattr_to_rust_index(value) == value.t = "enum"

\* types.py:428-438; the keyword arguments are evaluated in the order written
create_limit_order_params(side, amount, limit_price, tif) ==
    LET side_arg == IF hasattr_to_rust_index(side) THEN to_rust_index(side)
                      ELSE Raise("AttributeError", "to_rust_index")
        tif_arg == IF hasattr_to_rust_index(tif) THEN to_rust_index(tif)
                     ELSE Return(IntV(<<>>))
    IN  Then(side_arg, Then(tif_arg,
            Return([PlaceOrderParams(side_arg.v, amount, <<>>, limit_price)
                        EXCEPT !.tif = tif_arg.v])))

\* types.py:454-468: trigger_price, is_market and trigger_type are parameters
\* the body never uses; the record keeps the defaults of PlaceOrderParams
create_trigger_order_params(side, amount, limit_price, trigger_price, is_market, trigger_type) ==
    LET side_arg == IF hasattr_to_rust_index(side) THEN to_rust_index(side)
                      ELSE Raise("AttributeError", "to_rust_index")
    IN  Then(side_arg,
             Return(PlaceOrderParams(side_arg.v, amount, <<2>>, limit_price)))

CreateTriggerOrderCalls ==
    {[fn |-> "create_trigger_order_params", side |-> EnumV("OrderSide", s),
      amount |-> a, limit_price |-> p, trigger_price |-> tp,
      is_market |-> mk, trigger_type |-> tt] :
        s \in {"BUY", "SELL"}, a \in {Amount5M, U64Max}, p \in {<<>>, Price50G},
        tp \in {<<>>, Price50G, U64Max}, mk \in BOOLEAN, tt \in {<<>>, <<1>>}}
CreateLimitOrderCalls ==
    {[fn |-> "create_limit_order_params", side |-> EnumV("OrderSide", s),
      amount |-> a, limit_price |-> p, tif |-> tif] :
        s \in {"BUY", "SELL"}, a \in {Amount5M, U64Max}, p \in {<<>>, Price50G},
        tif \in {EnumV("TimeInForce", "GTC"), EnumV("TimeInForce", "IOC"),
                 EnumV("TimeInForce", "FOK"), NoneV}}

\* n bytes: first, first + step, first + 2 * step, ... (mod 256)
Pattern(first, step, n) == [i \in 1..n |-> (first + step * (i - 1)) % 256]

\* 2^64, one more than a u64 field holds
U64Over == <<0, 0, 0, 0, 1>>

\* records no constructor refuses: an order_type that is no variant, an
\* amount beyond u64
MalformedOrders ==
    {PlaceOrderParams(EnumV("OrderSide", "BUY"), a, ot, Price50G) :
        a \in {Amount5M, U64Over}, ot \in {<<>>, <<1>>, <<3>>, <<7>>}}
    \ {PlaceOrderParams(EnumV("OrderSide", "BUY"), Amount5M, ot, Price50G) :
        ot \in {<<>>, <<1>>}}

NameSamples == {<<>>, <<65, 66>>, <<233>>, <<20013>>}

CreateTokenCalls ==
    {[fn |-> "serialize_create_token_params",
      params |-> [name |-> StrV(n), symbol |-> StrV(s),
                  total_supply |-> IntV(ts), mintable |-> BoolV(m),
                  to |-> BytesV(to)]] :
        n \in NameSamples, s \in {<<84>>, <<233, 84>>},
        ts \in {<<>>, Amount5M, U64Max, U64Over}, m \in BOOLEAN,
        to \in {Pattern(1, 0, 32), Pattern(16, 3, 32),
                Pattern(7, 1, 31), Pattern(7, 1, 33)}}

CreateMarketCalls ==
    {[fn |-> "serialize_create_market_params",
      params |-> [name |-> StrV(n), base_token |-> BytesV(bt),
                  quote_token |-> BytesV(qt),
                  min_order_size |-> IntV(mos), tick_size |-> IntV(<<1>>),
                  maker_fee_bps |-> IntV(mf), taker_fee_bps |-> IntV(<<30>>),
                  allow_market_orders |-> BoolV(amo), state |-> IntV(st),
                  limit_order |-> BoolV(lo)]] :
        n \in {<<65, 66>>, <<233>>},
        bt \in {Pattern(1, 0, 32), Pattern(7, 1, 31)},
        qt \in {Pattern(16, 3, 32), Pattern(7, 1, 33)},
        mos \in {<<1000>>, U64Over}, mf \in {<<15>>, <<0, 1>>},
        amo \in BOOLEAN, st \in {<<>>, <<4>>}, lo \in BOOLEAN}
PlaceOrderCalls ==
    {[fn |-> "serialize_place_order_params", params |-> p] :
        p \in LimitParams \cup MarketParams \cup TriggerParams
                \cup MalformedOrders}

Optional(S) == {NoneV} \cup S

UpdateMarketCalls ==
    {[fn |-> "serialize_update_market_params",
      params |-> [min_order_size |-> mos, maker_fee_bps |-> mf,
                  taker_fee_bps |-> tf, allow_market_orders |-> amo,
                  state |-> st]] :
        mos \in Optional({IntV(<<>>), IntV(<<1000>>), IntV(U64Max)}),
        mf  \in Optional({IntV(<<>>), IntV(<<15>>), IntV(<<65535>>)}),
        tf  \in Optional({IntV(<<>>), IntV(<<30>>)}),
        amo \in Optional({BoolV(FALSE), BoolV(TRUE)}),
        st  \in Optional({EnumV("MarketState", "ACTIVE"),
                          EnumV("MarketState", "PAUSED"),
                          EnumV("MarketState", "CLOSED")})}


Bytes32Samples ==
    {Pattern(0, 0, 32), Pattern(255, 0, 32), Pattern(1, 1, 32),
     Pattern(65, 0, 32), Pattern(200, 7, 32), Pattern(48, 0, 32)}

Bytes16Samples ==
    {Pattern(0, 0, 16), Pattern(255, 0, 16), Pattern(1, 1, 16), Pattern(200, 7, 16)}

\* what a caller can put in CancelOrderParams.order_id
OrderIdValues ==
    {[t |-> "OrderId", bytes |-> b] : b \in Bytes32Samples}
    \cup {BytesV(b) : b \in Bytes32Samples}
    \cup {[t |-> "ObjectID", value |-> b] : b \in Bytes16Samples}
    \cup {StrV(hex(b)) : b \in Bytes16Samples}
    \cup {StrV(<<48, 120>> \o hex(b)) : b \in Bytes16Samples}
    \cup {StrV(hex(b)) : b \in Bytes32Samples}
    \cup {BytesV(Pattern(65, 0, 29)), BytesV(Pattern(1, 1, 16)),
          StrV(Pattern(122, 0, 32)),
          StrV([i \in 1..32 |-> IF i % 2 = 1 THEN 65 ELSE 70])}

CancelOrderCalls ==
    {[fn |-> f, params |-> [order_id |-> o],
      market_address |-> [t |-> "Address", value |-> Pattern(2, 0, 1) \o Pattern(0, 0, 31)],
      market_id |-> [t |-> "ObjectID", value |-> Pattern(9, 1, 16)]] :
        f \in {"serialize_cancel_order_params", "cancel_order"},
        o \in OrderIdValues}

(***************************************************************************)
(* Inputs of the event decoders: the payload of an event, cut after        *)
(* `cut` bytes                                                             *)
(***************************************************************************)
RECURSIVE LittleEndian(_, _)
\* the n low base-256 digits of the natural x, least significant first
LittleEndian(x, n) ==
    IF n = 0 THEN <<>>
    ELSE LET qr == QuotRem(x, 256) IN <<qr.r>> \o LittleEndian(Norm(qr.q), n - 1)

\* the bytes of one field of an event in the documented layout
FieldBytes(kind, value) ==
    CASE kind \in {"ObjectID", "Address"} -> value
      [] kind = "str"  -> LittleEndian(PyInt(Len(value)), 8) \o value
      [] kind = "u64"  -> LittleEndian(value, 8)
      [] kind = "u32"  -> LittleEndian(value, 4)
      [] kind = "u16"  -> LittleEndian(value, 2)
      [] kind = "bool" -> <<IF value THEN 1 ELSE 0>>

RECURSIVE Payload(_, _, _)
\* the payload of the event from its i-th field on
Payload(layout, event, i) ==
    IF i > Len(layout) THEN <<>>
    ELSE FieldBytes(layout[i].kind, event[layout[i].name])
            \o Payload(layout, event, i + 1)

\* "", "AB", "é" and a byte no UTF-8 text contains
StrSamples == {<<>>, <<65, 66>>, <<195, 169>>, <<255>>}

TokenEvents ==
    {[token_id |-> Pattern(1, 1, 16), token_address |-> Pattern(17, 1, 32),
      name |-> n, symbol |-> sy, total_supply |-> Price50G,
      creator |-> Pattern(100, 3, 32), mintable |-> TRUE,
      to |-> Pattern(7, 0, 32), balance_id |-> Pattern(250, 1, 16)] :
        n \in StrSamples, sy \in StrSamples}

MarketEvents ==
    {[market_id |-> Pattern(1, 1, 16), market_address |-> Pattern(17, 1, 32),
      name |-> n, base_token |-> Pattern(100, 3, 32),
      quote_token |-> Pattern(7, 0, 32), base_balance |-> Pattern(250, 1, 16),
      quote_balance |-> Pattern(3, 5, 16), price_index_id |-> Pattern(0, 0, 16),
      min_order_size |-> Amount5M, tick_size |-> <<1>>,
      maker_fee_bps |-> <<15>>, taker_fee_bps |-> <<65535>>,
      allow_market_orders |-> am, state |-> <<4>>,
      creator |-> Pattern(255, 0, 32)] :
        n \in StrSamples, am \in BOOLEAN}

\* every prefix of the payload of every event, the whole payload included
DecodeCalls(fn, layout, events) ==
    UNION {{[fn |-> fn, event |-> e, cut |-> k,
             data |-> SubSeq(Payload(layout, e, 1), 1, k)] :
                k \in 0..Len(Payload(layout, e, 1))} : e \in events}

\* whole payloads with other supplies, flags and a three-byte character
WholeTokenCalls ==
    {[fn |-> "deserialize_token_created_event", event |-> e,
      cut |-> Len(Payload(TokenCreatedLayout, e, 1)),
      data |-> Payload(TokenCreatedLayout, e, 1)] :
        e \in {[token_id |-> Pattern(1, 1, 16), token_address |-> Pattern(17, 1, 32),
                 name |-> n, symbol |-> <<84>>, total_supply |-> ts,
                 creator |-> Pattern(100, 3, 32), mintable |-> m,
                 to |-> Pattern(7, 0, 32), balance_id |-> Pattern(250, 1, 16)] :
                    n \in {<<65, 66>>, <<228, 184, 173>>}, ts \in {<<>>, U64Max},
                    m \in BOOLEAN}}

\* a payload whose name announces 2^64 - 1 bytes
HugeNameCalls ==
    {[fn |-> "deserialize_token_created_event",
      event |-> [huge |-> TRUE], cut |-> 56 + k,
      data |-> Pattern(1, 1, 48) \o Pattern(255, 0, 8) \o Pattern(65, 0, k)] :
        k \in {0, 3}}

\* a token event as parse_token_event_data lays it out: one length byte
\* before each string, no mintable and no to
ShortPrefixPayload(e) ==
    e.token_id \o e.token_address \o <<Len(e.name)>> \o e.name
        \o <<Len(e.symbol)>> \o e.symbol \o LittleEndian(e.total_supply, 8)
        \o e.creator \o e.balance_id

ParseCuts == {0, 15, 16, 47, 48, 49, 60, 72, 104, 113}

\* the payloads handed to parse_token_event_data: whole events in the layout
\* of deserialize_token_created_event and in its own, cut ones, transfers
ParseTokenCalls ==
    {[fn |-> "parse_token_event_data", event_type |-> "token_created",
      event |-> c.event, layout |-> "bincode", data |-> c.data] :
        c \in WholeTokenCalls
              \cup {d \in DecodeCalls("deserialize_token_created_event",
                                      TokenCreatedLayout, TokenEvents) :
                        d.cut = Len(Payload(TokenCreatedLayout, d.event, 1))}}
    \cup {[fn |-> "parse_token_event_data", event_type |-> "token_created",
           event |-> e, layout |-> "short", data |-> ShortPrefixPayload(e)] :
            e \in TokenEvents}
    \cup UNION {{[fn |-> "parse_token_event_data", event_type |-> ty,
                  layout |-> "cut",
                  data |-> SubSeq(Payload(TokenCreatedLayout, e, 1), 1, k)] :
                    k \in ParseCuts,
                    ty \in {"token_created", "Transfer", "token_minted"}} :
                e \in {x \in TokenEvents : x.name = <<65, 66>>}}
    \cup {[fn |-> "parse_token_event_data", event_type |-> "Transfer",
           layout |-> "transfer", data |-> Pattern(3, 5, k)] :
            k \in {103, 104, 119, 120, 127, 128, 130}}
EventCalls ==
    DecodeCalls("deserialize_token_created_event", TokenCreatedLayout, TokenEvents)
    \cup DecodeCalls("deserialize_market_created_event", MarketCreatedLayout, MarketEvents)
    \cup HugeNameCalls \cup WholeTokenCalls

(***************************************************************************)
(* Inputs of the transaction builder                                       *)
(***************************************************************************)
MaxActions == 2

AddressA == [t |-> "Address", value |-> Pattern(1, 0, 32)]
AddressB == [t |-> "Address", value |-> Pattern(16, 3, 32)]
ObjectA  == [t |-> "ObjectID", value |-> Pattern(9, 1, 16)]

Name_transfer == <<116, 114, 97, 110, 115, 102, 101, 114>>

\* an action whose params are bytes
TransferAction == Action(Name_transfer, BytesV(<<1, 2, 255>>), <<ObjectA>>, AddressA, AddressA)
\* the same operation on the same target, of another module
TransferActionB == Action(Name_transfer, BytesV(<<1, 2, 255>>), <<ObjectA>>, AddressA, AddressB)
PlaceAction == Action(Name_ord_place, BytesV(<<0, 7>>), <<>>, AddressB, AddressB)
\* what ActionBuilder.cancel_order makes of an OrderId: params that are not bytes
CancelAction ==
    cancel_order(AddressB, ObjectA,
                 [order_id |-> [t |-> "OrderId", bytes |-> Pattern(1, 1, 32)]]).v

ActionSamples == {PlaceAction, CancelAction}

SenderSamples     == {AddressA, AddressB}
NonceSamples      == {<<>>, <<7>>}
GasBudgetSamples  == {PyInt(1000000), <<500>>}
GasPriceSamples   == {<<1>>, <<2>>}
ExpirationSamples == {<<65535, 65535, 65535, 65535>>, <<1000>>}
Signers           == {[key |-> "alice"]}

\* the transactions _serialize_transaction is called with directly
SerializeCalls ==
    {[fn |-> "_serialize_transaction",
      transaction |-> [t |-> "object", cls |-> "Transaction", sender |-> s, nonce |-> n,
                       gas_budget |-> gb, gas_price |-> gp, expiration |-> e,
                       actions |-> ActionsRef],
      actions |-> l] :
        s \in SenderSamples, n \in NonceSamples, gb \in GasBudgetSamples,
        gp \in GasPriceSamples, e \in ExpirationSamples,
        l \in {<<a>> : a \in {TransferAction, TransferActionB, PlaceAction}}
                \cup {<<TransferAction, PlaceAction>>, <<PlaceAction, TransferAction>>,
                      <<TransferAction, TransferAction>>}}

\* signatures as bytes, of 64 bytes and of other lengths
SignatureBytes ==
    {BytesV(Pattern(1, 1, 64)), BytesV(Pattern(200, 3, 64))}
    \cup {BytesV(Pattern(5, 1, n)) : n \in {0, 32, 63, 65, 128}}

SignatureCalls ==
    {[fn |-> "_signature_to_rust_format", signature |-> sig] :
        sig \in SignatureBytes \cup {sign([key |-> "alice"], <<1, 2>>).v, NoneV}}

\* VerifiedTransactions made by hand, without actions, with one or two
\* signatures
SubmitCalls ==
    {[fn |-> "submit_transaction",
      transaction |->
        [t |-> "object", cls |-> "VerifiedTransaction",
         signed_transaction |->
            [transaction |-> [t |-> "object", cls |-> "Transaction", sender |-> AddressA,
                              nonce |-> <<>>, gas_budget |-> <<500>>, gas_price |-> <<1>>,
                              expiration |-> <<1000>>, actions |-> ActionsRef],
             signatures |-> sigs]],
      actions |-> <<>>] :
        sigs \in {<<a>> : a \in SignatureBytes}
                \cup {<<a, b>> : a \in SignatureBytes, b \in SignatureBytes}}

\* what a caller can pass to Address: hex text of 32 bytes in lower and upper
\* case, with and without 0x, of other lengths, with blanks, no hex at all;
\* bytes of 31 to 33 bytes; integers up to 2^256; None
AddressValues ==
    {StrV(pre \o hex(Pattern(a, 5, n))) :
        pre \in {<<>>, <<48, 120>>}, a \in {0, 171}, n \in {31, 32, 33}}
    \cup {StrV([i \in 1..64 |-> IF i % 2 = 1 THEN 65 ELSE 70]),
          StrV(hex(Pattern(171, 5, 31)) \o <<32, 32>>),
          StrV(Pattern(32, 0, 64)), StrV(Pattern(122, 0, 64)), StrV(<<>>)}
    \cup {BytesV(Pattern(a, 5, n)) : a \in {0, 171}, n \in {0, 31, 32, 33}}
    \cup {IntV(<<>>), IntV(<<1>>), IntV(Repeat(65535, 16)),
          IntV(Repeat(0, 16) \o <<1>>), NoneV}

AddressCalls == {[fn |-> "Address", value |-> v] : v \in AddressValues}
\* the keys Ed25519PrivateKey.generate() can draw, two of them
GeneratedKeys == {Pattern(11, 5, 32), Pattern(222, 9, 32)}

SeedLengths == {0, 1, 16, 31, 32, 33, 64}

\* b"", b"test message" cut to its first four bytes, and the same with a byte more
Messages == {<<>>, <<116, 101, 115, 116>>, <<116, 101, 115, 116, 33>>}

\* what a caller can pass as signature: signatures of this signer and of
\* another key, bytes of the right and of other lengths, and no bytes at all
SignatureInputs(self) ==
    {sign(k, m).v : k \in {self, [key |-> Pattern(99, 1, 32)]}, m \in Messages}
    \cup {BytesV(Pattern(0, 0, n)) : n \in {0, 63, 64, 65}}
    \cup {NoneV, StrV(<<>>)}

SignerCalls ==
    {[fn |-> "from_secret_key_bytes", secret_key_bytes |-> BytesV(Pattern(a, a, n))] :
        a \in {0, 7}, n \in SeedLengths}
    \cup {[fn |-> "from_hex", hex_string |-> StrV(pre \o hex(Pattern(7, 1, n)))] :
            pre \in {<<>>, <<48, 120>>}, n \in SeedLengths \ {64}}
    \cup {[fn |-> "from_hex", hex_string |-> StrV(s)] :
            s \in {<<97, 98, 99>>, Pattern(122, 0, 64),
                   [i \in 1..64 |-> IF i % 2 = 1 THEN 65 ELSE 70]}}
    \cup {[fn |-> "Signer", private_key |-> k] :
            k \in {NoneV, IntV(<<1>>), IntV(Repeat(65535, 16)),
                   IntV(Repeat(0, 16) \o <<1>>), BytesV(Pattern(3, 3, 32)),
                   BytesV(Pattern(3, 3, 48))}}
\* the heap that holds the action list of such a call
HeapOf(c) == [r \in {ActionsRef} |-> c.actions]

\* a program that drives one TransactionBuilder and the client
BuilderProgram == [fn |-> "TransactionBuilder"]

Pending == [t |-> "pending"]

(***************************************************************************)
(* transaction.py: ActionBuilder.place_order                               *)
(***************************************************************************)
\* transaction.py:197-200: struct.pack('<I', 0) + struct.pack('<I', 0), the
\* Limit variant with TimeInForce GTC, whatever params.order_type holds
order_type_data == PackU32(IntV(<<>>)).v \o PackU32(IntV(<<>>)).v

\* transaction.py:202-207
params_data(params) ==
    Statements(<<PackU32(params.side),
                 PackU64(params.amount),
                 Return(order_type_data),
                 PackU64(params.limit_price)>>, 1, <<>>)

\* ActionBuilder.place_order
place_order(market_address, market_id, balance_id, params) ==
    Then(params_data(params),
         Return(Action(Name_ord_place, BytesV(params_data(params).v),
                       <<market_id, balance_id>>,
                       market_address, market_address)))

ObjectB == [t |-> "ObjectID", value |-> Pattern(40, 2, 16)]

\* the orders handed to ActionBuilder.place_order
BuildPlaceOrderCalls ==
    {[fn |-> "place_order", market_address |-> AddressB, market_id |-> ObjectA,
      balance_id |-> ObjectB, params |-> p] :
        p \in LimitParams \cup MarketParams \cup TriggerParams}
(***************************************************************************)
(* transaction.py: the action_type each ActionBuilder method assigns       *)
(***************************************************************************)
Name_create == <<99, 114, 101, 97, 116, 101>>
Name_mint   == <<109, 105, 110, 116>>
Name_split  == <<115, 112, 108, 105, 116>>
Name_merge  == <<109, 101, 114, 103, 101>>
Name_update_market ==
    <<117, 112, 100, 97, 116, 101, 95, 109, 97, 114, 107, 101, 116>>

\* action_type=... in the Action each method returns
action_type_of(method) ==
    CASE method = "create_token"   -> Name_create
      [] method = "transfer_token" -> Name_transfer
      [] method = "mint_token"     -> Name_mint
      [] method = "split_token"    -> Name_split
      [] method = "merge_token"    -> Name_merge
      [] method = "create_market"  -> Name_mkt_create
      [] method = "update_market"  -> Name_update_market
      [] method = "place_order"    -> Name_ord_place
      [] method = "cancel_order"   -> Name_ord_cancel

ActionBuilderMethods ==
    {"create_token", "transfer_token", "mint_token", "split_token",
     "merge_token", "create_market", "update_market", "place_order",
     "cancel_order"}

\* the packer applied to the name of an Action a method of ActionBuilder made
ActionTypeCalls ==
    {[fn |-> "action_name_to_u64", action_name |-> action_type_of(method),
      method |-> method] : method \in ActionBuilderMethods}
Calls == PackCalls \cup PlaceOrderCalls \cup UpdateMarketCalls
            \cup CancelOrderCalls \cup EventCalls \cup SerializeCalls
            \cup CreateLimitOrderCalls \cup CreateTokenCalls
            \cup CreateMarketCalls \cup SignerCalls \cup SignatureCalls
            \cup SubmitCalls \cup AddressCalls \cup BuildPlaceOrderCalls
            \cup ActionTypeCalls \cup CreateTriggerOrderCalls
            \cup ParseTokenCalls

NoCall == [op |-> "none"]

Init ==
    /\ call \in Calls \cup {BuilderProgram}
    /\ ret = Pending
    /\ builder = NewBuilder
    /\ heap = [r \in {ActionsRef} |-> <<>>]
    /\ returned = NoneV
    /\ added = <<>>
    /\ outcome = NoCall

\* LightPoolClient._action_name_to_u64(action_name)
Pack ==
    /\ ret.t = "pending"
    /\ call.fn = "action_name_to_u64"
    /\ ret' = _action_name_to_u64(call.action_name)
    /\ UNCHANGED <<call, builder, heap, returned, added, outcome>>

\* serialize_place_order_params(params)
SerializePlaceOrder ==
    /\ ret.t = "pending"
    /\ call.fn = "serialize_place_order_params"
    /\ ret' = serialize_place_order_params(call.params)
    /\ UNCHANGED <<call, builder, heap, returned, added, outcome>>

\* Signer(private_key), Signer.from_secret_key_bytes(b), Signer.from_hex(s)
NewSigner ==
    /\ ret.t = "pending"
    /\ call.fn \in {"Signer", "from_secret_key_bytes", "from_hex"}
    /\ \E generated \in GeneratedKeys :
        ret' = CASE call.fn = "Signer" -> Signer_init(call.private_key, generated)
                 [] call.fn = "from_secret_key_bytes" ->
                        from_secret_key_bytes(call.secret_key_bytes, generated)
                 [] call.fn = "from_hex" -> from_hex(call.hex_string, generated)
    /\ UNCHANGED <<call, builder, heap, returned, added, outcome>>

\* Address(value)
NewAddress ==
    /\ ret.t = "pending"
    /\ call.fn = "Address"
    /\ ret' = Address_init(call.value)
    /\ UNCHANGED <<call, builder, heap, returned, added, outcome>>

\* Address(str(a)) for the Address a that was made
AddressOfStr ==
    /\ call.fn = "Address"
    /\ "made" \notin DOMAIN call
    /\ ret.t = "return"
    /\ call' = [fn |-> "Address", value |-> StrV(str(ret.v)), made |-> ret.v]
    /\ ret' = Pending
    /\ UNCHANGED <<builder, heap, returned, added, outcome>>

\* LightPoolClient._signature_to_rust_format(signature)
SignatureToRustFormat ==
    /\ ret.t = "pending"
    /\ call.fn = "_signature_to_rust_format"
    /\ ret' = _signature_to_rust_format(call.signature)
    /\ UNCHANGED <<call, builder, heap, returned, added, outcome>>

\* LightPoolClient.submit_transaction(transaction) on a transaction made by
\* hand, up to the request
SubmitMade ==
    /\ ret.t = "pending"
    /\ call.fn = "submit_transaction"
    /\ ret' = submit_transaction(call.transaction, HeapOf(call))
    /\ UNCHANGED <<call, builder, heap, returned, added, outcome>>

\* signer.address() on the Signer that was made
SignerAddress ==
    /\ call.fn \in {"Signer", "from_secret_key_bytes", "from_hex"}
    /\ ret.t = "return"
    /\ outcome' = [op |-> "address", after |-> outcome.op, res |-> address(ret.v)]
    /\ UNCHANGED <<call, ret, builder, heap, returned, added>>

\* signer.sign(message) on the Signer that was made
SignerSign ==
    /\ call.fn \in {"Signer", "from_secret_key_bytes", "from_hex"}
    /\ ret.t = "return"
    /\ \E message \in Messages :
        outcome' = [op |-> "sign", after |-> outcome.op, message |-> message,
                    res |-> sign(ret.v, message)]
    /\ UNCHANGED <<call, ret, builder, heap, returned, added>>

\* signer.verify(message, signature) on the Signer that was made
SignerVerify ==
    /\ call.fn \in {"Signer", "from_secret_key_bytes", "from_hex"}
    /\ ret.t = "return"
    /\ \E message \in Messages, signature \in SignatureInputs(ret.v) :
        outcome' = [op |-> "verify", after |-> outcome.op, message |-> message,
                    signature |-> signature,
                    res |-> verify(ret.v, message, signature)]
    /\ UNCHANGED <<call, ret, builder, heap, returned, added>>

\* the 32 bytes returned for a 16-byte reference are put in a new
\* CancelOrderParams, as bytes, as an OrderId or as 64 hexadecimal digits
PassExpanded ==
    /\ call.fn = "serialize_cancel_order_params"
    /\ "first" \notin DOMAIN call
    /\ ret.t = "return"
    /\ call.params.order_id.t \in {"ObjectID", "str"}
    /\ \E o \in {BytesV(ret.v), [t |-> "OrderId", bytes |-> ret.v], StrV(hex(ret.v))} :
            call' = [fn |-> "serialize_cancel_order_params",
                     params |-> [order_id |-> o],
                     market_address |-> call.market_address,
                     market_id |-> call.market_id,
                     first |-> ret.v]
    /\ ret' = Pending
    /\ UNCHANGED <<builder, heap, returned, added, outcome>>

\* serialize_create_token_params(params)
SerializeCreateToken ==
    /\ ret.t = "pending"
    /\ call.fn = "serialize_create_token_params"
    /\ ret' = serialize_create_token_params(call.params)
    /\ UNCHANGED <<call, builder, heap, returned, added, outcome>>

\* serialize_create_market_params(params)
SerializeCreateMarket ==
    /\ ret.t = "pending"
    /\ call.fn = "serialize_create_market_params"
    /\ ret' = serialize_create_market_params(call.params)
    /\ UNCHANGED <<call, builder, heap, returned, added, outcome>>

\* serialize_update_market_params(params)
SerializeUpdateMarket ==
    /\ ret.t = "pending"
    /\ call.fn = "serialize_update_market_params"
    /\ ret' = serialize_update_market_params(call.params)
    /\ UNCHANGED <<call, builder, heap, returned, added, outcome>>

\* serialize_cancel_order_params(params)
SerializeCancelOrder ==
    /\ ret.t = "pending"
    /\ call.fn = "serialize_cancel_order_params"
    /\ ret' = serialize_cancel_order_params(call.params)
    /\ UNCHANGED <<call, builder, heap, returned, added, outcome>>

\* ActionBuilder.cancel_order(market_address, market_id, params)
\* ActionBuilder.place_order(market_address, market_id, balance_id, params)
BuildPlaceOrder ==
    /\ ret.t = "pending"
    /\ call.fn = "place_order"
    /\ ret' = place_order(call.market_address, call.market_id,
                          call.balance_id, call.params)
    /\ UNCHANGED <<call, builder, heap, returned, added, outcome>>
BuildCancelOrder ==
    /\ ret.t = "pending"
    /\ call.fn = "cancel_order"
    /\ ret' = cancel_order(call.market_address, call.market_id, call.params)
    /\ UNCHANGED <<call, builder, heap, returned, added, outcome>>

\* deserialize_token_created_event(data)
\* parse_token_event_data(event_type, data)
ParseTokenEventData ==
    /\ ret.t = "pending"
    /\ call.fn = "parse_token_event_data"
    /\ ret' = parse_token_event_data(call.event_type, call.data)
    /\ UNCHANGED <<call, builder, heap, returned, added, outcome>>
DeserializeTokenCreated ==
    /\ ret.t = "pending"
    /\ call.fn = "deserialize_token_created_event"
    /\ ret' = deserialize_token_created_event(call.data)
    /\ UNCHANGED <<call, builder, heap, returned, added, outcome>>

\* deserialize_market_created_event(data)
DeserializeMarketCreated ==
    /\ ret.t = "pending"
    /\ call.fn = "deserialize_market_created_event"
    /\ ret' = deserialize_market_created_event(call.data)
    /\ UNCHANGED <<call, builder, heap, returned, added, outcome>>

\* create_limit_order_params(side, amount, limit_price, tif)
CreateLimitOrderParams ==
    /\ ret.t = "pending"
    /\ call.fn = "create_limit_order_params"
    /\ ret' = create_limit_order_params(call.side, call.amount, call.limit_price, call.tif)
    /\ UNCHANGED <<call, builder, heap, returned, added, outcome>>

\* the caller hands the PlaceOrderParams a helper returned to
\* serialize_place_order_params
\* create_trigger_order_params(side, amount, limit_price, trigger_price,
\*                             is_market, trigger_type)
CreateTriggerOrderParams ==
    /\ ret.t = "pending"
    /\ call.fn = "create_trigger_order_params"
    /\ ret' = create_trigger_order_params(call.side, call.amount,
                  call.limit_price, call.trigger_price, call.is_market,
                  call.trigger_type)
    /\ UNCHANGED <<call, builder, heap, returned, added, outcome>>
EncodeCreated ==
    /\ call.fn \in {"create_limit_order_params", "create_trigger_order_params"}
    /\ ret.t = "return"
    /\ call' = [fn |-> "serialize_place_order_params", params |-> ret.v, made_by |-> call]
    /\ ret' = Pending
    /\ UNCHANGED <<builder, heap, returned, added, outcome>>

\* TransactionBuilder._serialize_transaction(transaction)
SerializeTransaction ==
    /\ ret.t = "pending"
    /\ call.fn = "_serialize_transaction"
    /\ ret' = _serialize_transaction(call.transaction, HeapOf(call))
    /\ UNCHANGED <<call, builder, heap, returned, added, outcome>>

\* TransactionBuilder.sender(sender)
Sender ==
    /\ call = BuilderProgram
    /\ \E sender \in SenderSamples :
        /\ builder' = [builder EXCEPT !._sender = sender]
        /\ outcome' = NoCall
    /\ UNCHANGED <<call, ret, heap, returned, added>>

\* TransactionBuilder.nonce(nonce)
Nonce ==
    /\ call = BuilderProgram
    /\ \E nonce \in NonceSamples :
        /\ builder' = [builder EXCEPT !._nonce = nonce]
        /\ outcome' = NoCall
    /\ UNCHANGED <<call, ret, heap, returned, added>>

\* TransactionBuilder.gas_budget(gas_budget)
GasBudget ==
    /\ call = BuilderProgram
    /\ \E gas_budget \in GasBudgetSamples :
        /\ builder' = [builder EXCEPT !._gas_budget = gas_budget]
        /\ outcome' = NoCall
    /\ UNCHANGED <<call, ret, heap, returned, added>>

\* TransactionBuilder.gas_price(gas_price)
GasPrice ==
    /\ call = BuilderProgram
    /\ \E gas_price \in GasPriceSamples :
        /\ builder' = [builder EXCEPT !._gas_price = gas_price]
        /\ outcome' = NoCall
    /\ UNCHANGED <<call, ret, heap, returned, added>>

\* TransactionBuilder.expiration(expiration)
Expiration ==
    /\ call = BuilderProgram
    /\ \E expiration \in ExpirationSamples :
        /\ builder' = [builder EXCEPT !._expiration = expiration]
        /\ outcome' = NoCall
    /\ UNCHANGED <<call, ret, heap, returned, added>>

\* add_action putting the action at the front of the list
AddActionFront ==
    /\ call = BuilderProgram
    /\ Len(added) < MaxActions
    /\ \E action \in ActionSamples :
        /\ heap' = [heap EXCEPT ![builder._actions] = <<action>> \o @]
        /\ added' = Append(added, action)
        /\ outcome' = NoCall
    /\ UNCHANGED <<call, ret, builder, returned>>

\* TransactionBuilder.add_action(action): self._actions.append(action)
AddAction ==
    /\ call = BuilderProgram
    /\ Len(added) < MaxActions
    /\ \E action \in ActionSamples :
        /\ heap' = [heap EXCEPT ![builder._actions] = Append(@, action)]
        /\ added' = Append(added, action)
        /\ outcome' = NoCall
    /\ UNCHANGED <<call, ret, builder, returned>>

\* what a call leaves in outcome: that it returned, or the exception raised
Result(op, res) ==
    IF res.t = "return" THEN [op |-> op, t |-> "return"]
    ELSE [op |-> op, t |-> "raise", type |-> res.type, msg |-> res.msg]

\* TransactionBuilder.build()
Build ==
    /\ call = BuilderProgram
    /\ LET res == build(builder, heap) IN
        /\ outcome' = Result("build", res)
        /\ returned' = IF res.t = "return" THEN res.v ELSE returned
    /\ UNCHANGED <<call, ret, builder, heap, added>>

\* TransactionBuilder.build_and_sign(signer)
BuildAndSign ==
    /\ call = BuilderProgram
    /\ \E signer \in Signers :
        LET res == build_and_sign(builder, heap, signer) IN
        /\ outcome' = [signer |-> signer] @@ Result("build_and_sign", res)
        /\ returned' = IF res.t = "return" THEN res.v ELSE returned
    /\ UNCHANGED <<call, ret, builder, heap, added>>

\* LightPoolClient.submit_transaction(transaction), up to the request
SubmitTransaction ==
    /\ call = BuilderProgram
    /\ returned.t # "None"
    /\ returned.cls = "VerifiedTransaction"
    /\ outcome' = [op |-> "submit_transaction",
                   res |-> submit_transaction(returned, heap)]
    /\ UNCHANGED <<call, ret, builder, heap, returned, added>>

Next ==
    \/ Pack
    \/ SerializePlaceOrder
    \/ SerializeUpdateMarket
    \/ NewAddress
    \/ AddressOfStr
    \/ SignatureToRustFormat
    \/ SubmitMade
    \/ NewSigner
    \/ SignerAddress
    \/ SignerSign
    \/ SignerVerify
    \/ PassExpanded
    \/ SerializeCreateToken
    \/ SerializeCreateMarket
    \/ SerializeCancelOrder
    \/ BuildCancelOrder
    \/ BuildPlaceOrder
    \/ DeserializeTokenCreated
    \/ ParseTokenEventData
    \/ DeserializeMarketCreated
    \/ CreateLimitOrderParams
    \/ CreateTriggerOrderParams
    \/ EncodeCreated
    \/ SerializeTransaction
    \/ Sender
    \/ Nonce
    \/ GasBudget
    \/ GasPrice
    \/ Expiration
    \/ AddAction
    \/ Build
    \/ BuildAndSign
    \/ SubmitTransaction

Spec == Init /\ [][Next]_vars

(***************************************************************************)
(* Claims about the identifier packer                                      *)
(***************************************************************************)
Packed == call.fn = "action_name_to_u64" /\ ret.t = "return"

RECURSIVE StripUnderscores(_)
\* the name without its trailing underscores
StripUnderscores(n) ==
    IF n # <<>> /\ n[Len(n)] = Ord_underscore
    THEN StripUnderscores(SubSeq(n, 1, Len(n) - 1))
    ELSE n

\* C2 as stated: the packer is injective over the valid names of length 0
\* to 12, i.e. no other valid name packs to the integer just returned.
C2_Injective ==
    Packed =>
        \A m \in ValidNames :
            m # call.action_name => _action_name_to_u64(m).v # ret.v

\* C2 amended: two valid names pack to the same integer exactly when they
\* are equal once their trailing underscores are removed; names that do not
\* end with an underscore never collide.
C2_InjectiveUpToPadding ==
    Packed =>
        \A m \in ValidNames :
            (_action_name_to_u64(m).v = ret.v)
                <=> (StripUnderscores(m) = StripUnderscores(call.action_name))

\* a name ending with an underscore was packed, the shorter name is valid too
C2_Witness ==
    /\ Packed
    /\ call.action_name = <<Ord_a, Ord_underscore>>
    /\ <<Ord_a>> \in ValidNames
    /\ \E m \in ValidNames :
          StripUnderscores(m) # <<Ord_a>> /\ _action_name_to_u64(m).v # ret.v

\* the digit table of the identifier grammar: _ is 0, 1..5 are 1..5, a..z are 6..31
DigitTable ==
    [c \in {95} \cup (49..53) \cup (97..122) |->
        IF c = 95 THEN 0 ELSE IF c <= 53 THEN c - 48 ELSE c - 91]

RECURSIVE Base32(_, _)
\* the k low base-32 digits of x, most significant first, after what is left above them
Base32(x, k) ==
    IF k = 0 THEN <<x>>
    ELSE LET qr == QuotRem(x, 32) IN Base32(Norm(qr.q), k - 1) \o <<qr.r>>

\* C3: the packed value has the name's digits as its leading base-32 digits
\* and zeros after them, twelve digits in all, so it is below 32^12 = 2^60;
\* "ord_place" packs to 746789037603618816.
C3_PackedValue ==
    Packed =>
        LET n == call.action_name
            digits == Base32(ret.v, 12)
        IN  /\ digits[1] = <<>>
            /\ \A i \in 1..12 :
                  digits[i + 1] = IF i <= Len(n) THEN DigitTable[n[i]] ELSE 0
            /\ n = Name_ord_place =>
                  ToDecimal(ret.v) = <<7,4,6,7,8,9,0,3,7,6,0,3,6,1,8,8,1,6>>

C3_Witness ==
    /\ Packed
    /\ call.action_name = Name_ord_place
    /\ ToDecimal(ret.v) = <<7,4,6,7,8,9,0,3,7,6,0,3,6,1,8,8,1,6>>

(***************************************************************************)
(* Claims about the parameter codec                                        *)
(***************************************************************************)
Returned(fn) == call.fn = fn /\ ret.t = "return"
Finished(fn) == call.fn = fn /\ ret.t # "pending"

\* the integer does not fit the unsigned field of size bytes
OutOfRange(value, size) ==
    value.t = "int" /\ (IsNeg(value.v) \/ 2 * Len(value.v) > size)

\* the tag names a variant and amount and limit_price are u64
WellFormedOrder(p) ==
    /\ p.order_type \in {IntV(<<>>), IntV(<<1>>), IntV(<<2>>)}
    /\ ~OutOfRange(p.amount, 8)
    /\ ~OutOfRange(p.limit_price, 8)

\* the side of the wire format: 0 is Buy, 1 is Sell
WireSide(side) ==
    IF side.t = "int" THEN side.v
    ELSE IF side.name = "BUY" THEN <<>> ELSE <<1>>

\* the bytes the layout of PlaceOrderParams prescribes for params
PlaceOrderWire(p) ==
    LET payload ==
            CASE p.order_type.v = <<>>  -> LittleEndian(p.tif.v, 4)
              [] p.order_type.v = <<1>> -> LittleEndian(p.slippage.v, 8)
              [] p.order_type.v = <<2>> ->
                    LittleEndian(p.trigger_price.v, 8)
                    \o <<IF p.is_market.v THEN 1 ELSE 0>>
                    \o LittleEndian(p.trigger_type.v, 4)
    IN  LittleEndian(WireSide(p.side), 4) \o LittleEndian(p.amount.v, 8)
            \o LittleEndian(p.order_type.v, 4) \o payload
            \o LittleEndian(p.limit_price.v, 8)

\* 01000000 404b4c0000000000 00000000 00000000 00743ba40b000000
GoldenPlaceOrder ==
    <<1, 0, 0, 0,  64, 75, 76, 0, 0, 0, 0, 0,  0, 0, 0, 0,  0, 0, 0, 0,
      0, 116, 59, 164, 11, 0, 0, 0>>

IsGoldenOrder(p) ==
    /\ WireSide(p.side) = <<1>> /\ p.amount.v = Amount5M
    /\ p.order_type.v = <<>> /\ p.tif.t = "int" /\ p.tif.v = <<>>
    /\ p.limit_price.v = Price50G

\* C1: for a PlaceOrderParams with tag 0, 1 or 2 (its fields integers of the
\* field's width) the encoding is side u32, amount u64, tag u32, the payload
\* of the variant, then limit_price u64 in the last 8 bytes, little-endian;
\* 28, 32 and 37 bytes; the golden vector encodes to the golden bytes.
C1_PlaceOrderLayout ==
    (Finished("serialize_place_order_params") /\ call.params.tif.t = "int"
            /\ WellFormedOrder(call.params)) =>
        LET p == call.params IN
        /\ ret = Return(PlaceOrderWire(p))
        /\ Len(ret.v) = CASE p.order_type.v = <<>>  -> 28
                          [] p.order_type.v = <<1>> -> 32
                          [] p.order_type.v = <<2>> -> 37
        /\ SubSeq(ret.v, Len(ret.v) - 7, Len(ret.v)) = LittleEndian(p.limit_price.v, 8)
        /\ IsGoldenOrder(p) => ret.v = GoldenPlaceOrder

\* the golden vector was encoded
C1_Witness ==
    /\ Returned("serialize_place_order_params")
    /\ IsGoldenOrder(call.params)
    /\ call.params.side.t = "int"
    /\ ret.v = GoldenPlaceOrder

IsOrderId32(o) ==
    \/ o.t = "OrderId"
    \/ o.t = "bytes" /\ Len(o.v) = 32

OrderId32Bytes(o) == IF o.t = "OrderId" THEN o.bytes ELSE o.v

\* C4: for an order_id that is a 32-byte OrderId, as an OrderId object or as
\* 32 raw bytes, serialize_cancel_order_params returns those 32 bytes and
\* the Action of ActionBuilder.cancel_order has those 32 bytes as params.
C4_CancelOrderVerbatim ==
    /\ (Finished("serialize_cancel_order_params") /\ IsOrderId32(call.params.order_id))
            => ret = Return(OrderId32Bytes(call.params.order_id))
    /\ (Finished("cancel_order") /\ IsOrderId32(call.params.order_id))
            => /\ ret.t = "return"
               /\ ret.v.params.t = "bytes"
               /\ ret.v.params.v = OrderId32Bytes(call.params.order_id)

\* the discriminants of MarketState
StateTable == [ACTIVE |-> <<>>, PAUSED |-> <<1>>, CLOSED |-> <<4>>]

\* presence byte and value of one optional field of UpdateMarketParams
OptionWire(value, width) ==
    IF value.t = "None" THEN <<0>>
    ELSE <<1>> \o
         (CASE value.t = "int"  -> LittleEndian(value.v, width)
            [] value.t = "bool" -> <<IF value.v THEN 1 ELSE 0>>
            [] value.t = "enum" -> LittleEndian(StateTable[value.name], width))

SetWidth(value, width) == IF value.t = "None" THEN 0 ELSE width

\* C10: serialize_update_market_params writes, for min_order_size,
\* maker_fee_bps, taker_fee_bps, allow_market_orders and state in this order,
\* 0x00 for None and 0x01 with the 8, 2, 2, 1, 4 little-endian bytes of a set
\* value, also for 0 and False; the length is 5 plus the widths of the set
\* fields; only maker_fee_bps = 15 gives 00 01 0F 00 00 00 00.
C10_UpdateMarketLayout ==
    Finished("serialize_update_market_params") =>
        LET p == call.params IN
        /\ ret = Return(OptionWire(p.min_order_size, 8)
                        \o OptionWire(p.maker_fee_bps, 2)
                        \o OptionWire(p.taker_fee_bps, 2)
                        \o OptionWire(p.allow_market_orders, 1)
                        \o OptionWire(p.state, 4))
        /\ Len(ret.v) = 5 + SetWidth(p.min_order_size, 8)
                          + SetWidth(p.maker_fee_bps, 2)
                          + SetWidth(p.taker_fee_bps, 2)
                          + SetWidth(p.allow_market_orders, 1)
                          + SetWidth(p.state, 4)
        /\ (/\ p.min_order_size.t = "None" /\ p.taker_fee_bps.t = "None"
            /\ p.allow_market_orders.t = "None" /\ p.state.t = "None"
            /\ p.maker_fee_bps.t = "int" /\ p.maker_fee_bps.v = <<15>>)
                => ret.v = <<0, 1, 15, 0, 0, 0, 0>>

\* fields set to 0 and to False were encoded with their presence byte
C10_Witness ==
    /\ Returned("serialize_update_market_params")
    /\ call.params.min_order_size = IntV(<<>>)
    /\ call.params.maker_fee_bps = IntV(<<15>>)
    /\ call.params.taker_fee_bps = NoneV
    /\ call.params.allow_market_orders = BoolV(FALSE)
    /\ call.params.state = NoneV
    /\ ret.v = <<1, 0, 0, 0, 0, 0, 0, 0, 0,  1, 15, 0,  0,  1, 0,  0>>

(***************************************************************************)
(* Claims about the event decoders                                         *)
(***************************************************************************)
LayoutOf(fn) ==
    IF fn = "deserialize_token_created_event" THEN TokenCreatedLayout
    ELSE MarketCreatedLayout

Decoded ==
    /\ call.fn \in {"deserialize_token_created_event",
                    "deserialize_market_created_event"}
    /\ ret.t # "pending"

\* the offset at which the i-th field of the event ends in its payload
FieldEnd(layout, event, i) ==
    Len(Payload(layout, event, 1)) - Len(Payload(layout, event, i + 1))

IsHuge == "huge" \in DOMAIN call.event

\* the payload was cut before the end of its last field
IsCut == IsHuge \/ call.cut < Len(Payload(LayoutOf(call.fn), call.event, 1))

\* the name of the first field, in layout order, that the cut payload does
\* not hold completely
FirstMissing ==
    IF IsHuge THEN "name"
    ELSE LET layout == LayoutOf(call.fn)
             i == CHOOSE j \in 1..Len(layout) :
                    /\ FieldEnd(layout, call.event, j) > call.cut
                    /\ \A k \in 1..(j - 1) : FieldEnd(layout, call.event, k) <= call.cut
         IN  layout[i].name

\* the sample strings that are UTF-8 text
Utf8Text == {<<>>, <<65, 66>>, <<195, 169>>}

\* a string field that the payload holds completely is not UTF-8 text
HoldsBadText ==
    /\ ~IsHuge
    /\ LET layout == LayoutOf(call.fn) IN
       \E j \in 1..Len(layout) :
          /\ layout[j].kind = "str"
          /\ FieldEnd(layout, call.event, j) <= call.cut
          /\ call.event[layout[j].name] \notin Utf8Text

\* C9 as stated: decoding a payload that ends before all fields are complete
\* raises an error naming the first field whose bytes are missing.
C9_NamesFirstMissing ==
    (Decoded /\ IsCut) =>
        /\ ret.t = "raise"
        /\ ret.msg.field = FirstMissing

\* C9 amended: decoding a payload that ends before all fields are complete
\* returns no record; it raises the ValueError naming the first field whose
\* bytes are missing, unless a string field that is complete in the payload
\* is not valid UTF-8, in which case it raises the UnicodeDecodeError of
\* that string.
C9_TruncatedRaises ==
    (Decoded /\ IsCut) =>
        /\ ret.t = "raise"
        /\ IF HoldsBadText
           THEN ret.type = "UnicodeDecodeError"
           ELSE ret.type = "ValueError" /\ ret.msg.field = FirstMissing

\* a payload cut inside the bytes of symbol, after a complete name
C9_Witness ==
    /\ Decoded /\ IsCut /\ ~IsHuge
    /\ call.fn = "deserialize_token_created_event"
    /\ call.event.name = <<65, 66>>
    /\ call.event.symbol = <<195, 169>>
    /\ call.cut = 16 + 32 + 10 + 9
    /\ ret = Truncated("symbol", "content")

(***************************************************************************)
(* Claims about the transaction builder                                    *)
(***************************************************************************)
\* the Transaction inside what build or build_and_sign returned
Sealed(tx) ==
    IF tx.cls = "VerifiedTransaction" THEN tx.signed_transaction.transaction ELSE tx

\* the sender, the expiration and the items of the action list of a
\* transaction, given the items of every list
Content(tx, lists) ==
    [sender |-> Sealed(tx).sender, expiration |-> Sealed(tx).expiration,
     actions |-> lists[Sealed(tx).actions]]

BuildReturned ==
    /\ outcome.op \in {"build", "build_and_sign"}
    /\ outcome.t = "return"

\* C5: once build() or build_and_sign() has returned a Transaction, no later
\* call on the builder changes the sender, the expiration or the action list
\* of that Transaction.
C5_SealedImmutable ==
    [][returned.t # "None" => Content(returned, heap') = Content(returned, heap)]_vars

\* the integer a valid name packs to
NameValue(name) == _action_name_to_u64(name).v

\* the entry of the envelope for one action passed to add_action
EnvelopeEntry(action) ==
    [inputs |-> [i \in 1..Len(action.input_objects) |-> action.input_objects[i].value],
     contract |-> action.target_address.value,
     action |-> NameValue(action.action_type),
     params |-> action.params.v]

\* the "actions" entry of a serialization dict
ActionsOf(d) == (CHOOSE pair \in {d.v[i] : i \in 1..Len(d.v)} : pair[1] = Key_actions)[2]

\* C6: the action list of the built Transaction, the actions array of the
\* signing serialization and the actions array of the submitted envelope each
\* list exactly the actions passed to add_action, in the order of the calls.
C6_OrderPreserved ==
    /\ BuildReturned => heap[Sealed(returned).actions] = added
    /\ (BuildReturned /\ outcome.op = "build_and_sign") =>
            ActionsOf(tx_dict(Sealed(returned), heap).v)
                = JList([i \in 1..Len(added) |-> action_dict(added[i]).v])
    /\ outcome.op = "submit_transaction" =>
            /\ outcome.res.t = "return"
            /\ outcome.res.v.tx.transaction.actions
                = [i \in 1..Len(added) |-> EnvelopeEntry(added[i])]

\* C7: build_and_sign returns a VerifiedTransaction with exactly one
\* signature, which is signer.sign of the serialization of the transaction it
\* holds, and with the SHA-256 of the same bytes as digest; the signer
\* verifies the signature over that serialization.
C7_SignedSerialization ==
    (outcome.op = "build_and_sign" /\ outcome.t = "return") =>
        LET tx_bytes == _serialize_transaction(Sealed(returned), heap)
            signatures == returned.signed_transaction.signatures
        IN  /\ returned.cls = "VerifiedTransaction"
            /\ tx_bytes.t = "return"
            /\ Len(signatures) = 1
            /\ signatures[1] = [t |-> "signature", key |-> outcome.signer.key,
                                message |-> tx_bytes.v]
            /\ returned.digest.value = [t |-> "sha256", data |-> tx_bytes.v]
            /\ verify(outcome.signer, tx_bytes.v, signatures[1]) = Return(BoolV(TRUE))

\* build_and_sign has just returned a transaction of two actions, built
\* with a sender, a nonce and an expiration that are not the defaults
C7_Witness ==
    /\ outcome.op = "build_and_sign"
    /\ outcome.t = "return"
    /\ heap[Sealed(returned).actions] = <<PlaceAction, PlaceAction>>
    /\ Sealed(returned).sender = AddressB
    /\ Sealed(returned).nonce = <<7>>
    /\ Sealed(returned).expiration = <<1000>>

\* two calls serialize the same logical transaction: same sender, same
\* expiration, same ordered actions (input references, target, operation
\* name and parameter bytes)
SameLogical(c1, c2) ==
    /\ c1.transaction.sender = c2.transaction.sender
    /\ c1.transaction.expiration = c2.transaction.expiration
    /\ Len(c1.actions) = Len(c2.actions)
    /\ \A i \in 1..Len(c1.actions) :
        /\ c1.actions[i].input_objects = c2.actions[i].input_objects
        /\ c1.actions[i].target_address = c2.actions[i].target_address
        /\ c1.actions[i].action_type = c2.actions[i].action_type
        /\ c1.actions[i].params = c2.actions[i].params

\* C8: two transactions with the same sender, the same expiration and the
\* same ordered actions serialize to identical bytes.
C8_FunctionOfLogical ==
    Returned("_serialize_transaction") =>
        \A c \in SerializeCalls :
            SameLogical(c, call) =>
                _serialize_transaction(c.transaction, HeapOf(c)) = ret

(***************************************************************************)
(* Claims about the order helpers and the enum tables                      *)
(***************************************************************************)
\* the time_in_force value the spec gives each TimeInForce
TifTable(name) ==
    CASE name = "GTC" -> 0
      [] name = "IOC" -> 1
      [] name = "FOK" -> 2

\* the call is the encoding of what create_limit_order_params made of a
\* TimeInForce member
EncodesCreatedLimit ==
    /\ call.fn = "serialize_place_order_params"
    /\ "made_by" \in DOMAIN call
    /\ call.made_by.fn = "create_limit_order_params"
    /\ call.made_by.tif.t = "enum"

\* C11: for each of GTC, IOC and FOK, create_limit_order_params followed by
\* serialize_place_order_params raises nothing and the bytes 16..19 of the
\* encoding are the little-endian u32 0, 1 and 2 respectively.
C11_LimitTimeInForce ==
    /\ (call.fn = "create_limit_order_params" /\ call.tif.t = "enum"
            /\ ret.t # "pending") => ret.t = "return"
    /\ (EncodesCreatedLimit /\ ret.t # "pending") =>
            /\ ret.t = "return"
            /\ SubSeq(ret.v, 17, 20) = <<TifTable(call.made_by.tif.name), 0, 0, 0>>

\* the last n bytes of b
LastBytes(b, n) == SubSeq(b, Len(b) - n + 1, Len(b))

\* the discriminant the spec's table gives each MarketState
Discriminant(name) ==
    CASE name = "ACTIVE" -> 0
      [] name = "PAUSED" -> 1
      [] name = "CLOSED" -> 4

\* C12: for every MarketState in UpdateMarketParams.state,
\* serialize_update_market_params ends its output with the presence byte 1
\* and the table value (ACTIVE 0, PAUSED 1, CLOSED 4) as a little-endian
\* u32; the reserved values 2 and 3 are never written.
C12_StateDiscriminant ==
    (Finished("serialize_update_market_params") /\ call.params.state.t = "enum") =>
        /\ ret.t = "return"
        /\ LastBytes(ret.v, 5) = <<1, Discriminant(call.params.state.name), 0, 0, 0>>
        /\ LastBytes(ret.v, 4)[1] \notin {2, 3}

\* CLOSED, the third member, was encoded as 4 after other set fields
C12_Witness ==
    /\ Returned("serialize_update_market_params")
    /\ call.params.state = EnumV("MarketState", "CLOSED")
    /\ call.params.min_order_size.t = "int"
    /\ LastBytes(ret.v, 4) = <<4, 0, 0, 0>>


(***************************************************************************)
(* Claims about malformed records                                          *)
(***************************************************************************)
MalformedOrder ==
    /\ call.fn = "serialize_place_order_params"
    /\ ~WellFormedOrder(call.params)

MalformedToken ==
    /\ call.fn = "serialize_create_token_params"
    /\ \/ Len(call.params.to.v) # 32
       \/ OutOfRange(call.params.total_supply, 8)

MalformedMarket ==
    /\ call.fn = "serialize_create_market_params"
    /\ \/ Len(call.params.base_token.v) # 32
       \/ Len(call.params.quote_token.v) # 32
       \/ OutOfRange(call.params.min_order_size, 8)
       \/ OutOfRange(call.params.maker_fee_bps, 2)

\* C13: an encode call on a record with a malformed field (an order_type tag
\* outside {0, 1, 2}, an address that is not 32 bytes, an integer outside the
\* range of its field) ends with an error and returns no bytes
C13_MalformedRejected ==
    ((MalformedOrder \/ MalformedToken \/ MalformedMarket) /\ ret.t # "pending")
        => ret.t = "raise"

(***************************************************************************)
(* Claims about the 16-byte order reference                                *)
(***************************************************************************)
\* the value of a hexadecimal digit
Nibble(c) == IF c < 58 THEN c - 48 ELSE IF c < 97 THEN c - 55 ELSE c - 87

IsHexDigit(c) == c \in (48..57) \cup (65..70) \cup (97..102)

\* the text without a leading "0x"
Unprefixed(s) ==
    IF Len(s) >= 2 /\ s[1] = 48 /\ s[2] = 120 THEN SubSeq(s, 3, Len(s)) ELSE s

\* an ObjectID of 16 bytes, or 32 hexadecimal digits with or without 0x
IsRef16(o) ==
    \/ o.t = "ObjectID" /\ Len(o.value) = 16
    \/ /\ o.t = "str"
       /\ Len(Unprefixed(o.v)) = 32
       /\ \A i \in 1..32 : IsHexDigit(Unprefixed(o.v)[i])

\* the 16 bytes the reference denotes
Ref16Bytes(o) ==
    IF o.t = "ObjectID" THEN o.value
    ELSE [k \in 1..16 |-> 16 * Nibble(Unprefixed(o.v)[2 * k - 1])
                            + Nibble(Unprefixed(o.v)[2 * k])]

\* C14: for a 16-byte order reference b, serialize_cancel_order_params returns
\* 32 bytes, four little-endian u64 words, where word i is b[4i..4i+3]
\* zero-extended: bytes 8i..8i+3 are b[4i..4i+3] and bytes 8i+4..8i+7 are zero
C14_ExpandsChunks ==
    (Finished("serialize_cancel_order_params") /\ IsRef16(call.params.order_id)) =>
        LET b == Ref16Bytes(call.params.order_id) IN
        /\ ret.t = "return"
        /\ Len(ret.v) = 32
        /\ \A i \in 0..3 :
            /\ SubSeq(ret.v, 8 * i + 1, 8 * i + 4) = SubSeq(b, 4 * i + 1, 4 * i + 4)
            /\ SubSeq(ret.v, 8 * i + 5, 8 * i + 8) = <<0, 0, 0, 0>>

\* a reference written as 0x and 32 digits was expanded, its bytes 8..15 in
\* the third and fourth word
C14_Witness ==
    /\ Returned("serialize_cancel_order_params")
    /\ call.params.order_id.t = "str"
    /\ Len(call.params.order_id.v) = 34
    /\ SubSeq(ret.v, 17, 32) = <<9, 10, 11, 12, 0, 0, 0, 0, 13, 14, 15, 16, 0, 0, 0, 0>>

\* C15: the expansion is idempotent: the 32 bytes returned for a 16-byte
\* reference, passed again as the order_id of a CancelOrderParams, are
\* returned unchanged, without error and without a second expansion
C15_ExpansionIdempotent ==
    (Finished("serialize_cancel_order_params") /\ "first" \in DOMAIN call)
        => ret = Return(call.first)

(***************************************************************************)
(* Claims about the decoded token event                                    *)
(***************************************************************************)
\* the text that the UTF-8 bytes of the sample strings spell
TextOf(b) ==
    CASE b = <<>> -> <<>>
      [] b = <<65, 66>> -> <<65, 66>>
      [] b = <<84>> -> <<84>>
      [] b = <<195, 169>> -> <<233>>
      [] b = <<228, 184, 173>> -> <<20013>>

IsText(b) == b \in {<<>>, <<65, 66>>, <<84>>, <<195, 169>>, <<228, 184, 173>>}

\* a string as its 8-byte little-endian length and its bytes
Prefixed(b) == LittleEndian(PyInt(Len(b)), 8) \o b

\* the payload of the event e in the documented layout
TokenPayload(e) ==
    e.token_id \o e.token_address \o Prefixed(e.name) \o Prefixed(e.symbol)
        \o LittleEndian(e.total_supply, 8) \o e.creator
        \o <<IF e.mintable THEN 1 ELSE 0>> \o e.to \o e.balance_id

IsTokenPayload ==
    /\ call.fn = "deserialize_token_created_event"
    /\ ~IsHuge
    /\ Len(call.event.token_id) = 16 /\ Len(call.event.balance_id) = 16
    /\ Len(call.event.token_address) = 32 /\ Len(call.event.creator) = 32
    /\ Len(call.event.to) = 32
    /\ IsText(call.event.name) /\ IsText(call.event.symbol)
    /\ call.data = TokenPayload(call.event)

\* C16: for a payload laid out as token_id (16) | token_address (32) | name |
\* symbol | total_supply (u64) | creator (32) | mintable (1) | to (32) |
\* balance_id (16), strings as an 8-byte little-endian length and UTF-8 bytes,
\* deserialize_token_created_event returns a record whose nine fields are
\* those values
C16_TokenEventFields ==
    (IsTokenPayload /\ ret.t # "pending") =>
        LET e == call.event IN
        /\ ret.t = "return"
        /\ ret.v = [cls |-> "TokenCreatedEvent",
                    token_id |-> [t |-> "ObjectID", value |-> e.token_id],
                    token_address |-> [t |-> "Address", value |-> e.token_address],
                    name |-> StrV(TextOf(e.name)),
                    symbol |-> StrV(TextOf(e.symbol)),
                    total_supply |-> IntV(e.total_supply),
                    creator |-> [t |-> "Address", value |-> e.creator],
                    mintable |-> BoolV(e.mintable),
                    to |-> [t |-> "Address", value |-> e.to],
                    balance_id |-> [t |-> "ObjectID", value |-> e.balance_id]]

\* a whole payload with a three-byte character in name, supply 2^64 - 1 and
\* mintable false was decoded
C16_Witness ==
    /\ IsTokenPayload /\ ret.t = "return"
    /\ call.event.name = <<228, 184, 173>>
    /\ ret.v.name = StrV(<<20013>>)
    /\ ret.v.total_supply = IntV(U64Max)
    /\ ret.v.mintable = BoolV(FALSE)

(***************************************************************************)
(* Claims about serialize_create_token_params                              *)
(***************************************************************************)
\* the UTF-8 bytes of the sample names and symbols
Utf8Of(chars) ==
    CASE chars = <<>> -> <<>>
      [] chars = <<65, 66>> -> <<65, 66>>
      [] chars = <<84>> -> <<84>>
      [] chars = <<233>> -> <<195, 169>>
      [] chars = <<233, 84>> -> <<195, 169, 84>>
      [] chars = <<20013>> -> <<228, 184, 173>>

\* the layout of the output, field by field
CreateTokenWire(p) ==
    Prefixed(Utf8Of(p.name.v)) \o Prefixed(Utf8Of(p.symbol.v))
        \o LittleEndian(p.total_supply.v, 8)
        \o <<IF p.mintable.v THEN 1 ELSE 0>> \o p.to.v

\* C17 as stated: serialize_create_token_params returns name, then symbol,
\* each as the 8-byte little-endian count of its UTF-8 bytes and those bytes,
\* then total_supply as a little-endian u64, mintable as one byte 0 or 1 and
\* the 32 bytes of `to` with no prefix; the output is 49 + len(name) +
\* len(symbol) bytes long
C17_CreateTokenLayout49 ==
    (Finished("serialize_create_token_params") /\ ~MalformedToken) =>
        LET p == call.params IN
        /\ ret = Return(CreateTokenWire(p))
        /\ Len(ret.v) = 49 + Len(Utf8Of(p.name.v)) + Len(Utf8Of(p.symbol.v))

\* C17 amended: the same layout; the output is 57 + len(name) + len(symbol)
\* bytes long (two 8-byte counts, 8 bytes of total_supply, 1 of mintable and
\* 32 of `to`), the last 32 being `to`
C17_CreateTokenLayout ==
    (Finished("serialize_create_token_params") /\ ~MalformedToken) =>
        LET p == call.params IN
        /\ ret = Return(CreateTokenWire(p))
        /\ Len(ret.v) = 57 + Len(Utf8Of(p.name.v)) + Len(Utf8Of(p.symbol.v))
        /\ SubSeq(ret.v, Len(ret.v) - 31, Len(ret.v)) = p.to.v

\* a token whose name is one three-byte character and whose symbol has a
\* two-byte character was encoded to 63 bytes
C17_Witness ==
    /\ Returned("serialize_create_token_params")
    /\ call.params.name.v = <<20013>>
    /\ call.params.symbol.v = <<233, 84>>
    /\ call.params.mintable.v
    /\ call.params.total_supply.v = U64Max
    /\ Len(ret.v) = 63
    /\ SubSeq(ret.v, 1, 11) = <<3, 0, 0, 0, 0, 0, 0, 0, 228, 184, 173>>

(***************************************************************************)
(* Claims about TransactionBuilder.build                                   *)
(***************************************************************************)
\* a sender has been set and an action has been added
Ready(b, lists) == b._sender.t # "None" /\ lists[b._actions] # <<>>

BuildFailed(o) == o.op = "build" /\ o.t = "raise"

\* C18: build() raises ValidationError when no sender has been set or no
\* action has been added and returns a Transaction of the builder's fields
\* otherwise; a failed build() leaves the builder, its action list and the
\* Transaction returned before as they were, and once the missing sender or
\* action is supplied to a builder whose build() failed, build() returns
C18_BuildValidates ==
    /\ [](outcome.op = "build" =>
            IF Ready(builder, heap)
            THEN /\ outcome.t = "return"
                 /\ returned.cls = "Transaction"
                 /\ returned.sender = builder._sender
                 /\ heap[returned.actions] = added
            ELSE /\ outcome.t = "raise"
                 /\ outcome.type = "ValidationError")
    /\ [][BuildFailed(outcome') =>
            builder' = builder /\ heap' = heap /\ returned' = returned]_vars
    /\ [][(BuildFailed(outcome) /\ Ready(builder', heap')) =>
            build(builder', heap').t = "return"]_vars

\* build() failed for want of an action on a builder whose sender is set
C18_Witness ==
    /\ BuildFailed(outcome)
    /\ outcome.type = "ValidationError"
    /\ builder._sender = AddressB
    /\ heap[builder._actions] = <<>>
    /\ returned.t = "None"

(***************************************************************************)
(* Claims about the names the packer refuses                               *)
(***************************************************************************)
\* '_', '1'..'5', 'a'..'z'
Alphabet == {95} \cup (49..53) \cup (97..122)

\* C19: the packer raises and returns no integer when the name has more than
\* 12 characters, whatever its characters are, or holds a character outside
\* {_, '1'..'5', 'a'..'z'}; it returns an integer for every other name
C19_PackerRejects ==
    Finished("action_name_to_u64") =>
        LET name == call.action_name IN
        IF Len(name) > 12
        THEN ret = Raise("ValueError", "Action name too long")
        ELSE IF \E i \in 1..Len(name) : name[i] \notin Alphabet
        THEN ret = Raise("ValueError", "Invalid character in action name")
        ELSE ret.t = "return"

\* a name of 13 characters whose first is an uppercase letter was refused
\* for its length
C19_Witness ==
    /\ Finished("action_name_to_u64")
    /\ Len(call.action_name) = 13
    /\ call.action_name[1] = 65
    /\ ret = Raise("ValueError", "Action name too long")

(***************************************************************************)
(* Claims about the construction of a Signer                               *)
(***************************************************************************)
\* the text is pairs of hexadecimal digits after an optional 0x
IsHexText(s) ==
    /\ Len(Unprefixed(s)) % 2 = 0
    /\ \A i \in 1..Len(Unprefixed(s)) : IsHexDigit(Unprefixed(s)[i])

\* the call makes a Signer from key bytes
FromKeyBytes ==
    \/ call.fn = "from_secret_key_bytes"
    \/ call.fn = "Signer" /\ call.private_key.t = "bytes"
    \/ call.fn = "from_hex" /\ IsHexText(call.hex_string.v)

\* the seed of such a call
Seed ==
    CASE call.fn = "from_secret_key_bytes" -> call.secret_key_bytes.v
      [] call.fn = "Signer" -> call.private_key.v
      [] call.fn = "from_hex" ->
            [k \in 1..(Len(Unprefixed(call.hex_string.v)) \div 2) |->
                16 * Nibble(Unprefixed(call.hex_string.v)[2 * k - 1])
                    + Nibble(Unprefixed(call.hex_string.v)[2 * k])]

\* C20: making a Signer from key bytes succeeds exactly when the seed is 32
\* bytes, and the Signer holds that seed as its key; for every other length
\* it fails with CryptoError and no Signer is returned
C20_SeedLength ==
    (FromKeyBytes /\ ret.t # "pending") =>
        IF Len(Seed) = 32
        THEN ret.t = "return" /\ ret.v.cls = "Signer" /\ ret.v.key = Seed
        ELSE ret.t = "raise" /\ ret.type = "CryptoError"

\* a seed of 33 bytes was refused with CryptoError
C20_Witness ==
    /\ call.fn = "from_secret_key_bytes"
    /\ Len(call.secret_key_bytes.v) = 33
    /\ ret = Raise("CryptoError", "Invalid private key")

(***************************************************************************)
(* Claims about the Signer                                                 *)
(***************************************************************************)
\* a Signer was made by the call
HasSigner ==
    /\ call.fn \in {"Signer", "from_secret_key_bytes", "from_hex"}
    /\ ret.t = "return"

\* C21: address() is the first 32 bytes of the SHA-512 digest of the raw
\* public key of the Signer's key; it is the value stored at construction,
\* so it depends on the seed alone and is the same after sign calls
C21_AddressOfPublicKey ==
    /\ HasSigner => ret.v._address.value =
                        First32(sha512(public_key_bytes(ret.v.key)))
    /\ (HasSigner /\ outcome.op = "address") =>
            /\ outcome.res.t = "Address"
            /\ outcome.res = ret.v._address
            /\ outcome.res.value = [t |-> "first32",
                                    of |-> [t |-> "sha512",
                                            data |-> [t |-> "public_key", of |-> ret.v.key]]]
    /\ (HasSigner /\ call.fn = "from_secret_key_bytes") =>
            ret.v.key = call.secret_key_bytes.v

\* address() was called right after a sign call on a Signer made from a seed
C21_Witness ==
    /\ HasSigner
    /\ call.fn = "from_secret_key_bytes"
    /\ outcome.op = "address"
    /\ outcome.after = "sign"
    /\ outcome.res.value.of.data.of = call.secret_key_bytes.v

\* C22: verify(m, sign(m)) is true and verify(m', sign(m)) is false for every
\* other message m'; sign returns a 64-byte signature made over the message
\* bytes themselves
C22_SignVerify ==
    /\ (HasSigner /\ outcome.op = "sign") =>
            /\ outcome.res.t = "return"
            /\ len(outcome.res.v) = 64
            /\ outcome.res.v.message = outcome.message
            /\ \A m \in Messages :
                verify(ret.v, m, outcome.res.v) = Return(BoolV(m = outcome.message))
    /\ (HasSigner /\ outcome.op = "verify" /\ outcome.signature \in
            {sign(ret.v, m).v : m \in Messages}) =>
            outcome.res = Return(BoolV(outcome.signature = sign(ret.v, outcome.message).v))

\* verify refused the signature this signer made over another message
C22_Witness ==
    /\ HasSigner /\ outcome.op = "verify"
    /\ outcome.message = <<116, 101, 115, 116, 33>>
    /\ outcome.signature = [t |-> "signature", key |-> ret.v.key,
                            message |-> <<116, 101, 115, 116>>]
    /\ outcome.res = Return(BoolV(FALSE))

\* C23: verify never raises: for every message and every signature input (a
\* wrong length, empty, made by another key, not bytes) it returns a boolean,
\* false whenever the input is not this signer's signature over this message
C23_VerifyTotal ==
    (HasSigner /\ outcome.op = "verify") =>
        /\ outcome.res.t = "return"
        /\ outcome.res.v.t = "bool"
        /\ outcome.res.v.v <=>
                outcome.signature = [t |-> "signature", key |-> ret.v.key,
                                     message |-> outcome.message]

\* verify returned false for a signature of 63 bytes
C23_Witness ==
    /\ HasSigner /\ outcome.op = "verify"
    /\ outcome.signature.t = "bytes"
    /\ Len(outcome.signature.v) = 63
    /\ outcome.res = Return(BoolV(FALSE))

(***************************************************************************)
(* Claims about the signatures of the envelope                             *)
(***************************************************************************)
\* the halves of a 64-byte signature
Halves(b) == [part1 |-> SubSeq(b, 1, 32), part2 |-> SubSeq(b, 33, 64)]

\* C24: each signature of 64 bytes is split in part1, its first 32 bytes, and
\* part2, its last 32 bytes, part1 followed by part2 being the signature; a
\* signature of any other length is rejected with an error, in the
\* conversion and in the envelope submit_transaction builds
C24_SignatureHalves ==
    /\ (Finished("_signature_to_rust_format") /\ call.signature.t = "bytes") =>
            IF Len(call.signature.v) = 64
            THEN /\ ret = Return(Halves(call.signature.v))
                 /\ Len(ret.v.part1) = 32 /\ Len(ret.v.part2) = 32
                 /\ ret.v.part1 \o ret.v.part2 = call.signature.v
            ELSE ret = Raise("ValueError", "Unsupported signature format")
    /\ Finished("submit_transaction") =>
            LET sigs == call.transaction.signed_transaction.signatures IN
            IF \A i \in 1..Len(sigs) : Len(sigs[i].v) = 64
            THEN /\ ret.t = "return"
                 /\ Len(ret.v.tx.signatures) = Len(sigs)
                 /\ \A i \in 1..Len(sigs) :
                        ret.v.tx.signatures[i].part1 \o ret.v.tx.signatures[i].part2
                            = sigs[i].v
            ELSE ret = Raise("ValueError", "Unsupported signature format")

\* an envelope with the halves of two different signatures was built
C24_Witness ==
    /\ Returned("submit_transaction")
    /\ Len(ret.v.tx.signatures) = 2
    /\ ret.v.tx.signatures[1].part1 = Pattern(1, 1, 32)
    /\ ret.v.tx.signatures[2].part2 = SubSeq(Pattern(200, 3, 64), 33, 64)

(***************************************************************************)
(* Claims about Address                                                    *)
(***************************************************************************)
\* a digit or a lowercase letter a..f
IsLowerHex(c) == c \in (48..57) \cup (97..102)

\* C25: every Address that was constructed holds exactly 32 bytes, from hex
\* text, from bytes or from an integer; str(a) is "0x" and 64 lowercase
\* hexadecimal characters, and Address(str(a)) equals a
C25_AddressIs32Bytes ==
    /\ Returned("Address") =>
            /\ Len(ret.v.value) = 32
            /\ Len(str(ret.v)) = 66
            /\ SubSeq(str(ret.v), 1, 2) = <<48, 120>>
            /\ \A i \in 3..Len(str(ret.v)) : IsLowerHex(str(ret.v)[i])
    /\ (Finished("Address") /\ "made" \in DOMAIN call) => ret = Return(call.made)

(***************************************************************************)
(* Claims about the calls on the builder                                   *)
(***************************************************************************)
BuilderFields ==
    {"_sender", "_nonce", "_gas_budget", "_gas_price", "_expiration", "_actions"}

\* the step replaces the builder's field f, and no other, by a sample value
Replaces(f, samples) ==
    /\ builder'[f] \in samples
    /\ \A g \in BuilderFields \ {f} : builder'[g] = builder[g]
    /\ heap' = heap

\* C26: add_action(a) changes the builder only by adding a at the end of its
\* action list, the earlier actions keeping their positions and the five
\* fields their values; each setter replaces its own field only, by the
\* value given, and leaves the action list as it was
C26_AppendOnly ==
    [][call = BuilderProgram =>
        /\ AddAction =>
            /\ builder' = builder
            /\ Len(heap'[builder._actions]) = Len(heap[builder._actions]) + 1
            /\ SubSeq(heap'[builder._actions], 1, Len(heap[builder._actions]))
                    = heap[builder._actions]
            /\ heap'[builder._actions][Len(heap'[builder._actions])]
                    = added'[Len(added')]
        /\ Sender => Replaces("_sender", SenderSamples)
        /\ Nonce => Replaces("_nonce", NonceSamples)
        /\ GasBudget => Replaces("_gas_budget", GasBudgetSamples)
        /\ GasPrice => Replaces("_gas_price", GasPriceSamples)
        /\ Expiration => Replaces("_expiration", ExpirationSamples)
        /\ heap' # heap => builder' = builder
        /\ builder' # builder =>
            /\ heap' = heap
            /\ Cardinality({f \in BuilderFields : builder'[f] # builder[f]}) = 1
    ]_vars

\* two different actions are in the list in the order they were added, on a
\* builder whose sender and nonce were set
C26_Witness ==
    /\ call = BuilderProgram
    /\ Len(heap[builder._actions]) = 2
    /\ heap[builder._actions] = added
    /\ added[1] # added[2]
    /\ builder._sender = AddressB
    /\ builder._nonce = <<7>>
(***************************************************************************)
(* Claims about the order action of ActionBuilder                          *)
(***************************************************************************)
PlacedOrder == call.fn = "place_order" /\ ret.t # "pending"

\* C27: for every order the encoder accepts (Limit with any time in force,
\* Market with any slippage, Trigger with any trigger fields),
\* ActionBuilder.place_order returns an Action whose params are the bytes
\* serialize_place_order_params returns for the same order.
C27_PlaceOrderBlob ==
    (PlacedOrder /\ serialize_place_order_params(call.params).t = "return")
        => /\ ret.t = "return"
           /\ ret.v.params = BytesV(serialize_place_order_params(call.params).v)

\* the orders for which the two do agree: a Limit order with an int side and GTC
C27_AgreesOnLimitGtc ==
    (PlacedOrder /\ serialize_place_order_params(call.params).t = "return"
        /\ call.params.side.t = "int"
        /\ call.params.order_type.v = <<>>
        /\ tif_index(call.params) = Return(IntV(<<>>)))
        => /\ ret.t = "return"
           /\ ret.v.params = BytesV(serialize_place_order_params(call.params).v)
PackedActionType ==
    /\ call.fn = "action_name_to_u64"
    /\ ret.t # "pending"
    /\ "method" \in DOMAIN call

\* C28: every operation name an ActionBuilder method assigns (create, transfer,
\* mint, split, merge, mkt_create, update_market, ord_place, ord_cancel) has
\* at most 12 characters, all of them in {_, 1..5, a..z}, and the packer
\* returns a number for it.
C28_BuilderNamesPacked ==
    PackedActionType
        => /\ Len(call.action_name) <= NAME_LENGTH
           /\ \A i \in 1..Len(call.action_name) : call.action_name[i] \in Alphabet
           /\ ret.t = "return"

\* the same for the eight methods other than update_market
C28_OtherNamesPacked ==
    (PackedActionType /\ call.method # "update_market")
        => /\ Len(call.action_name) <= NAME_LENGTH
           /\ \A i \in 1..Len(call.action_name) : call.action_name[i] \in Alphabet
           /\ ret.t = "return"
           /\ (call.method = "place_order"
                 => call.action_name = place_order(AddressB, ObjectA, ObjectB,
                        PlaceOrderParams(IntV(<<>>), <<>>, <<>>, <<>>)).v.action_type)
           /\ (call.method = "cancel_order"
                 => call.action_name = CancelAction.action_type)
(***************************************************************************)
(* Claims about create_trigger_order_params                                *)
(***************************************************************************)
EncodesCreatedTrigger ==
    /\ call.fn = "serialize_place_order_params"
    /\ "made_by" \in DOMAIN call
    /\ call.made_by.fn = "create_trigger_order_params"
    /\ ret.t # "pending"

\* the 13 bytes of the Trigger payload for the three trigger arguments
TriggerPayload(trigger_price, is_market, trigger_type) ==
    LimbBytes(trigger_price, 1, 8) \o <<IF is_market THEN 1 ELSE 0>>
        \o LimbBytes(trigger_type, 1, 4)

\* C29: create_trigger_order_params(side, amount, limit_price, trigger_price,
\* is_market, trigger_type) returns a record of order type 2 that carries
\* the trigger_price, is_market and trigger_type given, and
\* serialize_place_order_params writes those three values as the Trigger
\* payload, the bytes 16..28 of the 37.
C29_TriggerFieldsCarried ==
    /\ (call.fn = "create_trigger_order_params" /\ ret.t # "pending")
        => /\ ret.t = "return"
           /\ ret.v.order_type = IntV(<<2>>)
           /\ ret.v.trigger_price = IntV(call.trigger_price)
           /\ ret.v.is_market = BoolV(call.is_market)
           /\ ret.v.trigger_type = IntV(call.trigger_type)
    /\ EncodesCreatedTrigger
        => /\ ret.t = "return"
           /\ Len(ret.v) = 37
           /\ SubSeq(ret.v, 17, 29)
                = TriggerPayload(call.made_by.trigger_price,
                                 call.made_by.is_market,
                                 call.made_by.trigger_type)

\* what the helper does deliver: side, amount, order type 2 and limit price,
\* and a Trigger payload of thirteen zero bytes
C29_TriggerDefaults ==
    /\ (call.fn = "create_trigger_order_params" /\ ret.t # "pending")
        => /\ ret.t = "return"
           /\ ret.v.order_type = IntV(<<2>>)
           /\ ret.v.amount = IntV(call.amount)
           /\ ret.v.limit_price = IntV(call.limit_price)
           /\ ret.v.trigger_price = IntV(<<>>)
           /\ ret.v.is_market = BoolV(FALSE)
           /\ ret.v.trigger_type = IntV(<<>>)
    /\ EncodesCreatedTrigger
        => /\ ret.t = "return"
           /\ Len(ret.v) = 37
           /\ SubSeq(ret.v, 17, 29) = Repeat(0, 13)
(***************************************************************************)
(* Claims about parse_token_event_data                                     *)
(***************************************************************************)
\* parse_token_event_data("token_created", data) has returned for the payload
\* of a token event as deserialize_token_created_event reads it
ParsedTokenPayload ==
    /\ call.fn = "parse_token_event_data"
    /\ call.event_type = "token_created"
    /\ call.layout = "bincode"
    /\ IsText(call.event.name) /\ IsText(call.event.symbol)
    /\ call.data = TokenPayload(call.event)
    /\ ret.t # "pending"

\* the dict of parse_token_event_data for the fields of a TokenCreatedEvent
FormattedEvent(event) ==
    [t |-> "dict",
     token_id |-> StrV(str(event.token_id)),
     token_address |-> StrV(str(event.token_address)),
     name |-> event.name,
     symbol |-> event.symbol,
     total_supply |-> event.total_supply,
     creator |-> StrV(str(event.creator)),
     balance_id |-> StrV(str(event.balance_id))]

\* C30: for every well-formed payload of a token-created event,
\* parse_token_event_data("token_created", data) returns a dict whose
\* token_id, token_address, name, symbol, total_supply, creator and
\* balance_id are those of deserialize_token_created_event(data), the ids and
\* addresses as 0x-prefixed hexadecimal text.
C30_ParsersAgree ==
    ParsedTokenPayload
        => /\ deserialize_token_created_event(call.data).t = "return"
           /\ ret = Return(FormattedEvent(
                               deserialize_token_created_event(call.data).v))

\* the two agree on token_id and token_address, the fields before the strings
C30_AgreeBeforeStrings ==
    ParsedTokenPayload
        => /\ ret.t = "return"
           /\ ret.v.t = "dict" =>
                /\ ret.v.token_id = StrV(str(
                       deserialize_token_created_event(call.data).v.token_id))
                /\ ret.v.token_address = StrV(str(
                       deserialize_token_created_event(call.data).v.token_address))

\* parse_token_event_data returns the fields of an event laid out with one
\* length byte before each string and balance_id after creator
C30_ShortPrefixLayout ==
    (/\ call.fn = "parse_token_event_data" /\ call.layout = "short"
     /\ IsText(call.event.name) /\ IsText(call.event.symbol)
     /\ ret.t # "pending")
        => ret = Return(FormattedEvent(
                    [token_id |-> [t |-> "ObjectID", value |-> call.event.token_id],
                     token_address |-> [t |-> "Address", value |-> call.event.token_address],
                     name |-> StrV(TextOf(call.event.name)),
                     symbol |-> StrV(TextOf(call.event.symbol)),
                     total_supply |-> IntV(call.event.total_supply),
                     creator |-> [t |-> "Address", value |-> call.event.creator],
                     balance_id |-> [t |-> "ObjectID", value |-> call.event.balance_id]]))
====
